---- MODULE Spec2Model ----
(***************************************************************************)
(* A model of the spending tracker's core: the Expense and Budget          *)
(* entities, the ExpenseController (transaction service with its cache     *)
(* and budget warnings), the local MockDataService store, the              *)
(* ConfigManager with its modification-time cache, and the recurring       *)
(* expense processor of the main window.                                   *)
(*                                                                         *)
(* Representation.  A date string "YYYY-MM-DD" is the record [y, m, d];    *)
(* a string that datetime.strptime rejects is a record that is no          *)
(* calendar date (NotADate, or a day past the month's end).  A year-month  *)
(* token "YYYY-MM" is the pair <<y, m>>.  An Optional value is the empty   *)
(* sequence (None) or a one-element sequence.  Amounts are whole currency  *)
(* units.  Category and description strings come from a small alphabet on  *)
(* which strip() and lower() are tabulated.                                *)
(***************************************************************************)
EXTENDS Integers, Sequences, FiniteSets, TLC

VARIABLES
    \* ---- Expense entity under test (models/expense.py)
    obj,                \* the Expense object: <<>> before construction, else <<fields>>
    obj_raised,         \* whether the last constructor / update call raised ValueError
    \* ---- Budget.get_spending_for_month under test (models/budget.py)
    q_budget,           \* the Budget whose method is called
    q_expenses,         \* the expenses argument
    q_month,            \* the (year, month) argument, as <<y, m>>
    q_spending,         \* the returned value: <<>> before the call, else <<value>>
    \* ---- ExpenseController and its data services
    data,               \* [mock, sheets]: each service's list of raw records
    use_mock_data,      \* ExpenseController.use_mock_data (selects data_service)
    budgets,            \* ExpenseController.budget_manager.budgets
    expense_cache,      \* ExpenseController._expense_cache
    cache_last_updated, \* ExpenseController._cache_last_updated (NoTime = None)
    now,                \* the clock, in minutes
    result,             \* what the last controller call returned
    hist,               \* history of the calls since the last get_expenses(use_cache=True)
    \* ---- configuration and recurring processor
    today,              \* the calendar date of datetime.now()
    config_file,        \* the document stored in config.yaml
    file_mtime,         \* os.path.getmtime(config_path), as a write counter
    cm_config,          \* ConfigManager._config: <<>> (None) or <<document>>
    cm_last_modified,   \* ConfigManager._last_modified (NoTime = None)
    win_config,         \* the document MainWindow.config refers to
    win_shared,         \* MainWindow.config is the very object ConfigManager._config
    pass_log,           \* per rule, what the last processor pass did with it
    \* ---- Expense.to_dict / Expense.from_dict under test (models/expense.py)
    rt_t,               \* the Expense t: <<>> before construction, else <<fields>>
    rt_dict,            \* the dictionary handed to from_dict: <<>> or <<dict>>
    rt_back,            \* what from_dict did: <<>> or <<[raised, obj]>>
    \* ---- ExpenseAggregator under test (models/expense.py)
    agg_expenses,       \* the expenses argument
    agg_totals,         \* the four totals returned: <<>> before the calls
    \* ---- EmailScheduler (services/email_scheduler.py)
    running,            \* EmailScheduler._running
    stop_event,         \* EmailScheduler._stop_event is set
    schedule_config,    \* EmailScheduler.schedule_config
    jobs,               \* schedule.jobs, the job list of the schedule module
    threads,            \* every thread start_scheduler has created, in order
    has_recipients,     \* EmailService.config lists recipients
    clock,              \* the time of day of datetime.now(), in minutes
    ui_pending,         \* the UI thread is inside update_schedule_config, before
                        \* its start_scheduler call
    scheduled_sends,    \* the month of every report the scheduler has sent
    sched_result        \* what the last scheduler call or step did

entity_vars  == <<obj, obj_raised>>
query_vars   == <<q_budget, q_expenses, q_month, q_spending>>
service_vars == <<data, use_mock_data, budgets, expense_cache, cache_last_updated,
                  now, result, hist>>
config_vars  == <<today, config_file, file_mtime, cm_config, cm_last_modified,
                  win_config, win_shared, pass_log>>
codec_vars   == <<rt_t, rt_dict, rt_back>>
agg_vars     == <<agg_expenses, agg_totals>>
sched_vars   == <<running, stop_event, schedule_config, jobs, threads, has_recipients,
                  clock, ui_pending, scheduled_sends, sched_result>>
\* the variables of the parts modelled after the recurring processor
ext_vars     == <<codec_vars, agg_vars, sched_vars>>
vars == <<entity_vars, query_vars, service_vars, config_vars, codec_vars, agg_vars,
          sched_vars>>

NoTime == 0 - 1

\* F applied to the value of e, e being evaluated once
Bind(e, F(_)) == CHOOSE y \in {F(x) : x \in {e}} : TRUE

(***************************************************************************)
(* Dates                                                                   *)
(***************************************************************************)
Date(y, m, d) == [y |-> y, m |-> m, d |-> d]

NotADate == Date(0, 0, 0)

IsLeap(y) == (y % 4 = 0 /\ y % 100 # 0) \/ y % 400 = 0

\* calendar.monthrange(year, month)[1]
DaysInMonth(y, m) ==
    IF m \in {4, 6, 9, 11} THEN 30
    ELSE IF m = 2 THEN (IF IsLeap(y) THEN 29 ELSE 28)
    ELSE 31

\* datetime.strptime(s, "%Y-%m-%d") succeeds
ParsesAsDate(dt) ==
    /\ dt.y >= 1
    /\ dt.m \in 1..12
    /\ dt.d \in 1..DaysInMonth(dt.y, dt.m)

\* datetime comparison a <= b
DateLE(a, b) ==
    \/ a.y < b.y
    \/ a.y = b.y /\ a.m < b.m
    \/ a.y = b.y /\ a.m = b.m /\ a.d <= b.d

\* strftime("%Y-%m")
MonthKey(dt) == <<dt.y, dt.m>>

(***************************************************************************)
(* Strings                                                                 *)
(***************************************************************************)
\* str.strip()
Strip(s) ==
    CASE s = " Food " -> "Food"
      [] s = "  "     -> ""
      [] OTHER        -> s

\* str.lower()
Lower(s) ==
    CASE s = "Food"   -> "food"
      [] s = "FOOD"   -> "food"
      [] s = " Food " -> " food "
      [] s = "Rent"   -> "rent"
      [] OTHER        -> s

(***************************************************************************)
(* Expense (models/expense.py)                                             *)
(***************************************************************************)
\* The first check of Expense.validate that fails, or "ok".
ValidateError(e) ==
    IF e.amount = 0 THEN "Amount must be a non-zero number"
    ELSE IF ~ParsesAsDate(e.date) THEN "Date must be in YYYY-MM-DD format"
    ELSE IF e.category = "" \/ Strip(e.category) = "" THEN "Category cannot be empty"
    ELSE "ok"

\* Expense.validate: the object as validate leaves it.  When a check raises, the
\* clean-up of the string fields is not reached and the fields stay as they are.
validate(e) ==
    IF ValidateError(e) # "ok" THEN e
    ELSE [e EXCEPT !.category = Strip(e.category),
                   !.description = Strip(e.description)]

\* Expense(date, amount, category, description): the fields __post_init__
\* validates; updated_at starts as the creation timestamp
NewExpense(date, amount, category, description) ==
    [date |-> date, amount |-> amount, category |-> category,
     description |-> description, updated_at |-> "created_at"]

\* One keyword argument of update(**kwargs): kw[f] is <<>> (not given) or <<value>>
Apply(e, kw) ==
    [date        |-> IF kw.date = <<>> THEN e.date ELSE kw.date[1],
     amount      |-> IF kw.amount = <<>> THEN e.amount ELSE kw.amount[1],
     category    |-> IF kw.category = <<>> THEN e.category ELSE kw.category[1],
     description |-> IF kw.description = <<>> THEN e.description ELSE kw.description[1],
     updated_at  |-> e.updated_at]

\* Expense.update: setattr for every given field, updated_at set to the time of
\* the call, then validate.
update(e, kw) ==
    validate([Apply(e, kw) EXCEPT !.updated_at = "now"])

(***************************************************************************)
(* ExpenseFilter (models/expense.py) and Budget (models/budget.py)         *)
(***************************************************************************)
RECURSIVE SumAmounts(_)
\* sum(exp.amount for exp in expenses)
SumAmounts(expenses) ==
    IF expenses = <<>> THEN 0
    ELSE Head(expenses).amount + SumAmounts(Tail(expenses))

Abs(n) == IF n < 0 THEN 0 - n ELSE n

\* Expense.is_in_month
is_in_month(e, y, m) == ParsesAsDate(e.date) /\ e.date.y = y /\ e.date.m = m

IsNegative(e) == e.amount < 0

\* ExpenseFilter.by_category: case-insensitive equality
by_category(expenses, category) ==
    LET Same(e) == Lower(e.category) = Lower(category)
    IN  SelectSeq(expenses, Same)

\* ExpenseFilter.by_month
by_month(expenses, y, m) ==
    LET In(e) == is_in_month(e, y, m)
    IN  SelectSeq(expenses, In)

\* A variant that nets credits against expenses (used to probe the spend claim).
get_spending_for_month_net(b, y, m, expenses) ==
    Abs(SumAmounts(by_month(by_category(expenses, b.category), y, m)))

\* Budget.get_spending_for_month
get_spending_for_month(b, y, m, expenses) ==
    LET category_expenses == by_category(expenses, b.category)
        month_expenses    == by_month(category_expenses, y, m)
    IN  Abs(SumAmounts(SelectSeq(month_expenses, IsNegative)))

\* Budget(category, monthly_limit, start_date)
NewBudget(category, monthly_limit, start_date) ==
    [category |-> category, monthly_limit |-> monthly_limit,
     start_date |-> start_date, end_date |-> <<>>, is_active |-> TRUE]

\* Budget.is_active_for_date
is_active_for_date(b, dt) ==
    /\ b.is_active
    /\ ParsesAsDate(dt) /\ ParsesAsDate(b.start_date)
    /\ DateLE(b.start_date, dt)
    /\ (b.end_date # <<>> =>
            /\ ParsesAsDate(b.end_date[1])
            /\ DateLE(dt, b.end_date[1]))

\* BudgetManager.get_budget_by_category: the first matching active budget,
\* as <<budget>>, or <<>> for None
get_budget_by_category(bs, category, dt) ==
    LET Match(b) == Lower(b.category) = Lower(category) /\ is_active_for_date(b, dt)
        found    == SelectSeq(bs, Match)
    IN  IF found = <<>> THEN <<>> ELSE <<Head(found)>>

(***************************************************************************)
(* Data services: MockDataService (services/mock_data_service.py) and      *)
(* GoogleSheetsService (services/google_sheets_service.py).                *)
(* Each call carries the outcome of its I/O as an input: for the mock      *)
(* service whether _save_data succeeds, for the sheets service whether the *)
(* API request succeeds.                                                   *)
(***************************************************************************)
RawRecord(date, amount, category, description) ==
    [Date |-> date, Amount |-> amount, Category |-> category,
     Description |-> description]

\* MockDataService.add_expense: the record is inserted at the front of the
\* in-memory list, then _save_data writes the file; an exception of the write is
\* caught and False returned, the in-memory insert not being undone.
mock_add_expense(store, rec, io_ok) ==
    [store |-> <<rec>> \o store, ok |-> io_ok]

\* GoogleSheetsService.add_expense: worksheet.append_row adds the row at the end;
\* an exception of the request is caught and False returned.
sheets_add_expense(store, rec, io_ok) ==
    [store |-> IF io_ok THEN Append(store, rec) ELSE store, ok |-> io_ok]

\* The old values a service reads from Expense.to_dict() match the stored record
Matches(stored, old) ==
    /\ stored.Date = old.date
    /\ stored.Amount = old.amount
    /\ stored.Category = old.category
    /\ stored.Description = old.description

\* Index of the last stored record matching old, 0 when there is none
LastMatch(store, old) ==
    LET hits == {i \in 1..Len(store) : Matches(store[i], old)}
    IN  IF hits = {} THEN 0 ELSE CHOOSE i \in hits : \A j \in hits : j <= i

\* Index of the first stored record matching old, 0 when there is none
FirstMatch(store, old) ==
    LET hits == {i \in 1..Len(store) : Matches(store[i], old)}
    IN  IF hits = {} THEN 0 ELSE CHOOSE i \in hits : \A j \in hits : i <= j

RemoveAt(store, i) ==
    [j \in 1..(Len(store) - 1) |-> IF j < i THEN store[j] ELSE store[j + 1]]

\* MockDataService.update_expense
mock_update_expense(store, old, rec, io_ok) ==
    LET i == FirstMatch(store, old)
    IN  IF i = 0 THEN [store |-> store, ok |-> FALSE]
        ELSE [store |-> [store EXCEPT ![i] = rec], ok |-> io_ok]

\* GoogleSheetsService.update_expense
sheets_update_expense(store, old, rec, io_ok) ==
    LET i == FirstMatch(store, old)
    IN  IF ~io_ok \/ i = 0 THEN [store |-> store, ok |-> FALSE]
        ELSE [store |-> [store EXCEPT ![i] = rec], ok |-> TRUE]

\* MockDataService.delete_expense
mock_delete_expense(store, old, io_ok) ==
    LET i == FirstMatch(store, old)
    IN  IF i = 0 THEN [store |-> store, ok |-> FALSE]
        ELSE [store |-> RemoveAt(store, i), ok |-> io_ok]

\* GoogleSheetsService.delete_expense
sheets_delete_expense(store, old, io_ok) ==
    LET i == FirstMatch(store, old)
    IN  IF ~io_ok \/ i = 0 THEN [store |-> store, ok |-> FALSE]
        ELSE [store |-> RemoveAt(store, i), ok |-> TRUE]

\* data_service.get_expenses(): the mock service returns its in-memory list; the
\* sheets service returns the rows, or [] when the request raises.
service_get_expenses(s, io_ok) ==
    IF s.use_mock_data THEN s.data.mock
    ELSE IF io_ok THEN s.data.sheets ELSE <<>>

(***************************************************************************)
(* ExpenseController (controllers/expense_controller.py).                  *)
(* The operators thread the controller's state as a record s with fields   *)
(* data, use_mock_data, budgets, cache, cache_at and now.                  *)
(***************************************************************************)
CacheDurationMinutes == 5

NoWarning == [kind |-> "none", value |-> 0]

\* Expense.from_dict on a stored record (capitalised keys)
from_dict(r) == NewExpense(r.Date, r.Amount, r.Category, r.Description)

\* Expense.to_dict, the keys the data services read
to_dict(e) ==
    [date |-> e.date, amount |-> e.amount, category |-> e.category,
     description |-> e.description]

\* ExpenseController._invalidate_cache
invalidate_cache(s) == [s EXCEPT !.cache = <<>>, !.cache_at = NoTime]

\* ExpenseController.switch_data_source
switch_data_source(s, b) ==
    invalidate_cache([s EXCEPT !.use_mock_data = b])

\* A validity test with no expiry.
is_cache_valid_forever(s) == s.cache_at # NoTime

\* A validity test that takes an empty cache for no cache.
is_cache_valid_nonempty(s) ==
    /\ s.cache_at # NoTime
    /\ s.cache # <<>>
    /\ s.now - s.cache_at < CacheDurationMinutes

\* ExpenseController._is_cache_valid
is_cache_valid(s) ==
    /\ s.cache_at # NoTime
    /\ s.now - s.cache_at < CacheDurationMinutes

\* A loader that drops the records it cannot convert and keeps the others.
get_expenses_from_service_lenient(s, io_ok) ==
    LET recs == service_get_expenses(s, io_ok)
        Good(r) == ValidateError(from_dict(r)) = "ok"
        kept == SelectSeq(recs, Good)
    IN  [i \in 1..Len(kept) |-> validate(from_dict(kept[i]))]

\* ExpenseController._get_expenses_from_service: every record converted, or []
\* when the service call or one conversion raises
get_expenses_from_service(s, io_ok) ==
    LET recs == service_get_expenses(s, io_ok)
        objs == [i \in 1..Len(recs) |-> from_dict(recs[i])]
    IN  IF \A i \in 1..Len(recs) : ValidateError(objs[i]) = "ok"
        THEN [i \in 1..Len(recs) |-> validate(objs[i])]
        ELSE <<>>

\* ExpenseController.get_expenses: [s, ret, calls] with calls the number of
\* data_service.get_expenses() calls made
get_expenses(s, use_cache, io_ok) ==
    IF use_cache /\ is_cache_valid(s)
    THEN [s |-> s, ret |-> s.cache, calls |-> 0]
    ELSE Bind(get_expenses_from_service(s, io_ok),
              LAMBDA fresh : [s |-> [s EXCEPT !.cache = fresh, !.cache_at = s.now],
                              ret |-> fresh, calls |-> 1])

\* f"{percentage:.1f}" of projected / limit * 100, in tenths of a percent
PercentTenths(projected, limit) == (projected * 2000 + limit) \div (2 * limit)

\* ExpenseController._check_budget_warnings: [s, warning, seen, calls]; seen is
\* <<[limit, spent]>>, the budget's limit and the month's spending, when the
\* check ran to its end with a budget, else <<>>.  io.check is "ok", or where an
\* exception is raised inside the try block: "lookup" (before get_expenses) or
\* "compare" (after it); the except clause returns the empty warning.
check_budget_warnings(s, expense, io) ==
    LET none   == [s |-> s, warning |-> NoWarning, seen |-> <<>>, calls |-> 0]
        budget == get_budget_by_category(s.budgets, expense.category, expense.date)
        Compare(b, got, spent) ==
            LET projected == spent + expense.amount
                out(w)    == [s |-> got.s, warning |-> w, calls |-> got.calls,
                              seen |-> <<[limit |-> b.monthly_limit, spent |-> spent]>>]
            IN  IF projected > b.monthly_limit
                THEN out([kind |-> "exceeds",
                          value |-> projected - b.monthly_limit])
                ELSE IF projected * 10 > b.monthly_limit * 8
                THEN out([kind |-> "percent",
                          value |-> PercentTenths(projected, b.monthly_limit)])
                ELSE out(NoWarning)
        Check(b, got) ==
            IF io.check = "compare"
            THEN [s |-> got.s, warning |-> NoWarning, seen |-> <<>>,
                  calls |-> got.calls]
            ELSE Bind(get_spending_for_month(b, expense.date.y, expense.date.m,
                                             got.ret),
                      LAMBDA spent : Compare(b, got, spent))
    IN  IF io.check = "lookup" \/ budget = <<>> THEN none
        ELSE Bind(get_expenses(s, TRUE, io.load_ok),
                  LAMBDA got : Check(budget[1], got))

\* What a controller call hands back, with the calls it made on the way
Outcome(s, ok, message, warning, seen, calls, passed) ==
    [s |-> s, ok |-> ok, message |-> message, warning |-> warning, seen |-> seen,
     calls |-> calls, passed |-> passed]

\* data_service.add_expense(date, amount, category, description)
service_add_expense(s, rec, io_ok) ==
    IF s.use_mock_data
    THEN LET r == mock_add_expense(s.data.mock, rec, io_ok)
         IN  [s |-> [s EXCEPT !.data.mock = r.store], ok |-> r.ok]
    ELSE LET r == sheets_add_expense(s.data.sheets, rec, io_ok)
         IN  [s |-> [s EXCEPT !.data.sheets = r.store], ok |-> r.ok]

\* data_service.update_expense(old_expense.to_dict(), date, amount, ...)
service_update_expense(s, old, rec, io_ok) ==
    IF s.use_mock_data
    THEN LET r == mock_update_expense(s.data.mock, old, rec, io_ok)
         IN  [s |-> [s EXCEPT !.data.mock = r.store], ok |-> r.ok]
    ELSE LET r == sheets_update_expense(s.data.sheets, old, rec, io_ok)
         IN  [s |-> [s EXCEPT !.data.sheets = r.store], ok |-> r.ok]

\* data_service.delete_expense(expense.to_dict())
service_delete_expense(s, old, io_ok) ==
    IF s.use_mock_data
    THEN LET r == mock_delete_expense(s.data.mock, old, io_ok)
         IN  [s |-> [s EXCEPT !.data.mock = r.store], ok |-> r.ok]
    ELSE LET r == sheets_delete_expense(s.data.sheets, old, io_ok)
         IN  [s |-> [s EXCEPT !.data.sheets = r.store], ok |-> r.ok]

\* An add_expense that refuses the write when the budget check warns.
add_expense_blocking(s, a, io) ==
    LET e0 == NewExpense(a.Date, a.Amount, a.Category, a.Description)
        Finish(chk, svc) ==
            IF chk.warning.kind # "none"
            THEN Outcome(chk.s, FALSE, "Budget warning", chk.warning,
                         chk.seen, chk.calls, <<>>)
            ELSE IF svc.ok
            THEN Outcome(invalidate_cache(svc.s), TRUE, "Expense added successfully",
                         chk.warning, chk.seen, chk.calls, <<a>>)
            ELSE Outcome(svc.s, FALSE, "Failed to add expense to data service",
                         NoWarning, chk.seen, chk.calls, <<a>>)
        Write(chk) ==
            Bind(service_add_expense(chk.s, a, io.write_ok),
                 LAMBDA svc : Finish(chk, svc))
    IN  IF ValidateError(e0) # "ok"
        THEN Outcome(s, FALSE, "Validation error", NoWarning, <<>>, 0, <<>>)
        ELSE Bind(check_budget_warnings(s, validate(e0), io), Write)

\* An add_expense that leaves the cache as it is after the write.
add_expense_keep_cache(s, a, io) ==
    LET e0 == NewExpense(a.Date, a.Amount, a.Category, a.Description)
        Finish(chk, svc) ==
            IF svc.ok
            THEN Outcome(svc.s, TRUE, "Expense added successfully",
                         chk.warning, chk.seen, chk.calls, <<a>>)
            ELSE Outcome(svc.s, FALSE, "Failed to add expense to data service",
                         NoWarning, chk.seen, chk.calls, <<a>>)
        Write(chk) ==
            Bind(service_add_expense(chk.s, a, io.write_ok),
                 LAMBDA svc : Finish(chk, svc))
    IN  IF ValidateError(e0) # "ok"
        THEN Outcome(s, FALSE, "Validation error", NoWarning, <<>>, 0, <<>>)
        ELSE Bind(check_budget_warnings(s, validate(e0), io), Write)

\* ExpenseController.add_expense(date, amount, category, description), the
\* arguments given as the record a.  A ValueError of the Expense constructor is
\* caught and reported; then the budget check runs (chk), the data service is
\* called with the arguments as given (svc), and on success the cache is
\* invalidated and the warning joins the message.
add_expense(s, a, io) ==
    LET e0 == NewExpense(a.Date, a.Amount, a.Category, a.Description)
        Finish(chk, svc) ==
            IF svc.ok
            THEN Outcome(invalidate_cache(svc.s), TRUE, "Expense added successfully",
                         chk.warning, chk.seen, chk.calls, <<a>>)
            ELSE Outcome(svc.s, FALSE, "Failed to add expense to data service",
                         NoWarning, chk.seen, chk.calls, <<a>>)
        Write(chk) ==
            Bind(service_add_expense(chk.s, a, io.write_ok),
                 LAMBDA svc : Finish(chk, svc))
    IN  IF ValidateError(e0) # "ok"
        THEN Outcome(s, FALSE, "Validation error", NoWarning, <<>>, 0, <<>>)
        ELSE Bind(check_budget_warnings(s, validate(e0), io), Write)

\* ExpenseController.update_expense(old_expense, date, amount, category, description)
update_expense(s, old, a, io) ==
    LET e0 == NewExpense(a.Date, a.Amount, a.Category, a.Description)
        Finish(chk, svc) ==
            IF svc.ok
            THEN Outcome(invalidate_cache(svc.s), TRUE, "Expense updated successfully",
                         chk.warning, chk.seen, chk.calls, <<a>>)
            ELSE Outcome(svc.s, FALSE, "Failed to update expense in data service",
                         NoWarning, chk.seen, chk.calls, <<a>>)
        Write(chk) ==
            Bind(service_update_expense(chk.s, to_dict(old), a, io.write_ok),
                 LAMBDA svc : Finish(chk, svc))
    IN  IF ValidateError(e0) # "ok"
        THEN Outcome(s, FALSE, "Validation error", NoWarning, <<>>, 0, <<>>)
        ELSE Bind(check_budget_warnings(s, validate(e0), io), Write)

\* ExpenseController.delete_expense(expense)
delete_expense(s, old, io) ==
    LET svc == service_delete_expense(s, to_dict(old), io.write_ok)
    IN  IF svc.ok
        THEN Outcome(invalidate_cache(svc.s), TRUE,
                     "Expense deleted successfully", NoWarning, <<>>, 0, <<>>)
        ELSE Outcome(svc.s, FALSE, "Failed to delete expense from data service",
                     NoWarning, <<>>, 0, <<>>)

\* ExpenseController.sync_data: the mock sync always succeeds, the sheets sync
\* succeeds when its requests do; the cache is invalidated on success
sync_data(s, io_ok) ==
    LET success == s.use_mock_data \/ io_ok
    IN  IF success
        THEN Outcome(invalidate_cache(s), TRUE,
                     "sync completed", NoWarning, <<>>, 0, <<>>)
        ELSE Outcome(s, FALSE, "Sync failed", NoWarning, <<>>, 0, <<>>)

(***************************************************************************)
(* Values the specifications draw their inputs from                        *)
(***************************************************************************)
D1     == Date(2024, 11, 10)
D2     == Date(2024, 12, 3)
BadDay == Date(2024, 11, 31)

NoHistory == [stale |-> FALSE, disturbed |-> FALSE, add_pending |-> FALSE,
              prev |-> <<>>]

NoResult == [op |-> "none"]

NoConfig == [recurring |-> <<>>, smtp_server |-> "", last_monthly_report_sent |-> <<>>]

InitEntityIdle == obj = <<>> /\ obj_raised = FALSE

InitCodecIdle == rt_t = <<>> /\ rt_dict = <<>> /\ rt_back = <<>>

InitAggIdle == agg_expenses = <<>> /\ agg_totals = <<>>

NoSchedule == [enabled |-> FALSE, day_of_month |-> 1, hour |-> 9, minute |-> 0]

InitSchedIdle ==
    /\ running = FALSE
    /\ stop_event = FALSE
    /\ schedule_config = NoSchedule
    /\ jobs = <<>>
    /\ threads = <<>>
    /\ has_recipients = FALSE
    /\ clock = 0
    /\ ui_pending = FALSE
    /\ scheduled_sends = <<>>
    /\ sched_result = NoResult

InitExtIdle == InitCodecIdle /\ InitAggIdle /\ InitSchedIdle

InitQueryIdle ==
    /\ q_budget = <<>> /\ q_expenses = <<>> /\ q_month = <<>> /\ q_spending = <<>>

InitServiceIdle ==
    /\ data = [mock |-> <<>>, sheets |-> <<>>]
    /\ use_mock_data = TRUE
    /\ budgets = <<>>
    /\ expense_cache = <<>>
    /\ cache_last_updated = NoTime
    /\ now = 0
    /\ result = NoResult
    /\ hist = NoHistory

InitConfigIdle ==
    /\ today = D1
    /\ config_file = NoConfig
    /\ file_mtime = 0
    /\ cm_config = <<>>
    /\ cm_last_modified = NoTime
    /\ win_config = NoConfig
    /\ win_shared = FALSE
    /\ pass_log = <<>>

(***************************************************************************)
(* The ExpenseController as a state machine.  Each action is one public    *)
(* call; what the call returned and what it did on the way is left in      *)
(* result.                                                                 *)
(***************************************************************************)
MaxStore == 3
MaxRows  == 1
MaxNow   == 5

FoodBudget == NewBudget("Food", 200, Date(2024, 1, 1))

Spent80 == RawRecord(D1, 0 - 80, "Food", "")
Spent90 == RawRecord(D1, 0 - 90, "Food", "")

ValidInputs ==
    {RawRecord(D1, 0 - 40, "Food", ""), RawRecord(D1, 0 - 10, "Food", "")}

InvalidInputs ==
    {RawRecord(D1, 0, "Food", ""), RawRecord(BadDay, 0 - 40, "Food", ""),
     RawRecord(D1, 0 - 40, "  ", "")}

CacheInputs == {RawRecord(D1, 0 - 10, "Food", "")}

\* The controller's state as the operators take it
S == [data |-> data, use_mock_data |-> use_mock_data, budgets |-> budgets,
      cache |-> expense_cache, cache_at |-> cache_last_updated, now |-> now]

Commit(s) ==
    /\ data' = s.data
    /\ use_mock_data' = s.use_mock_data
    /\ expense_cache' = s.cache
    /\ cache_last_updated' = s.cache_at
    /\ UNCHANGED <<budgets, now>>

CurrentStore == IF use_mock_data THEN data.mock ELSE data.sheets

\* The outcomes the collaborators' I/O can have in the state s: a failing read
\* request (sheets only), a failing write, and one of the given outcomes of the
\* budget check (an exception inside it needs a configured budget)
LoadOutcomes(s) == IF s.use_mock_data THEN {TRUE} ELSE BOOLEAN

CheckOutcomes == {"ok", "lookup", "compare"}

IoOutcomes(s, Checks) ==
    [check    : IF s.budgets = <<>> THEN {"ok"} ELSE Checks,
     load_ok  : LoadOutcomes(s),
     write_ok : BOOLEAN]

\* What get_expenses returned, with its relation to the previous
\* get_expenses(use_cache=True) call
GetResult(use_cache, o) ==
    LET had == hist.prev # <<>>
    IN  [op |-> "get_expenses", use_cache |-> use_cache, calls |-> o.calls,
         snap_age |-> now - o.s.cache_at,
         had_prev |-> had,
         prev_recent |-> had /\ now - hist.prev[1].at < CacheDurationMinutes,
         capture_recent |-> had /\ now - hist.prev[1].captured < CacheDurationMinutes,
         same_as_prev |-> had /\ o.ret = hist.prev[1].ret,
         disturbed |-> hist.disturbed, add_pending |-> hist.add_pending]

\* What a write returned and did; storage_ok is what the data service answers
\* to the write on the store as it was
WriteResult(op, a, o, storage_ok) ==
    [op |-> op, args |-> a, ok |-> o.ok, warning |-> o.warning, seen |-> o.seen,
     calls |-> o.calls, passed |-> o.passed, storage_ok |-> storage_ok,
     changed |-> o.s.data # data]

\* controller.get_expenses(use_cache)
GetExpenses(Modes) ==
    \E use_cache \in Modes, load_ok \in LoadOutcomes(S) :
        \E o \in {get_expenses(S, use_cache, load_ok)} :
            /\ Commit(o.s)
            /\ result' = GetResult(use_cache, o)
            /\ UNCHANGED <<entity_vars, ext_vars, query_vars, config_vars>>

\* controller.add_expense(date, amount, category, description)
AddExpense(In, Checks, max) ==
    \E a \in In, io \in IoOutcomes(S, Checks) :
        \E o \in {add_expense(S, a, io)} :
            /\ Len(CurrentStore) < max
            /\ Commit(o.s)
            /\ result' = WriteResult("add_expense", a, o,
                                     service_add_expense(S, a, io.write_ok).ok)
            /\ UNCHANGED <<entity_vars, ext_vars, query_vars, config_vars>>

\* controller.update_expense(old_expense, ...), old_expense one of the objects
\* the last get_expenses handed out
UpdateExpense(In, Checks) ==
    \E i \in 1..Len(expense_cache), a \in In, io \in IoOutcomes(S, Checks) :
        \E o \in {update_expense(S, expense_cache[i], a, io)} :
            /\ Commit(o.s)
            /\ result' = WriteResult("update_expense", a, o,
                    service_update_expense(S, to_dict(expense_cache[i]), a,
                                           io.write_ok).ok)
            /\ UNCHANGED <<entity_vars, ext_vars, query_vars, config_vars>>

\* controller.delete_expense(expense)
DeleteExpense ==
    \E i \in 1..Len(expense_cache), write_ok \in BOOLEAN :
        \E o \in {delete_expense(S, expense_cache[i],
                                  [check |-> "ok", load_ok |-> TRUE,
                                   write_ok |-> write_ok])} :
            /\ Commit(o.s)
            /\ result' = [op |-> "delete_expense", ok |-> o.ok, calls |-> 0,
                          changed |-> o.s.data # data]
            /\ UNCHANGED <<entity_vars, ext_vars, query_vars, config_vars>>

\* controller.switch_data_source(not use_mock_data)
SwitchDataSource ==
    /\ \E s \in {switch_data_source(S, ~use_mock_data)} : Commit(s)
    /\ result' = [op |-> "switch_data_source", ok |-> TRUE, calls |-> 0]
    /\ UNCHANGED <<entity_vars, ext_vars, query_vars, config_vars>>

\* controller.sync_data()
SyncData ==
    \E io_ok \in BOOLEAN :
        \E o \in {sync_data(S, io_ok)} :
            /\ Commit(o.s)
            /\ result' = [op |-> "sync_data", ok |-> o.ok, calls |-> 0]
            /\ UNCHANGED <<entity_vars, ext_vars, query_vars, config_vars>>

\* A minute passes
Tick ==
    /\ now < MaxNow
    /\ now' = now + 1
    /\ UNCHANGED <<data, use_mock_data, budgets, expense_cache, cache_last_updated,
                   result, hist, entity_vars, ext_vars, query_vars, config_vars>>

\* The history after the call that left r: whether the cached snapshot
\* predates a successful write or a switch (stale), and since the last
\* get_expenses(use_cache=True) (prev) whether a successful write, a switch, a
\* successful sync or a reload happened (disturbed) and whether an add
\* succeeded with no reload after it (add_pending)
Track(h, r) ==
    LET loaded == IF r.calls > 0
                  THEN [h EXCEPT !.stale = FALSE, !.disturbed = TRUE,
                                 !.add_pending = FALSE]
                  ELSE h
    IN  CASE r.op = "get_expenses" ->
                IF r.use_cache
                THEN [NoHistory EXCEPT !.stale = loaded.stale,
                          !.prev = <<[at |-> now, ret |-> expense_cache',
                                      captured |-> cache_last_updated']>>]
                ELSE loaded
          [] r.op \in {"add_expense", "update_expense", "delete_expense"} ->
                IF r.ok
                THEN [loaded EXCEPT !.stale = TRUE, !.disturbed = TRUE,
                          !.add_pending = (r.op = "add_expense") \/ loaded.add_pending]
                ELSE loaded
          [] r.op = "switch_data_source" ->
                [h EXCEPT !.stale = TRUE, !.disturbed = TRUE]
          [] r.op = "sync_data" ->
                IF r.ok THEN [h EXCEPT !.disturbed = TRUE] ELSE h

Tracked == hist' = Track(hist, result')

\* ---- Writes and their budget warnings, on either data service
ServiceInit ==
    /\ use_mock_data \in BOOLEAN
    /\ \E store \in {<<>>, <<Spent80, Spent90>>, <<Spent90, Spent90>>} :
          data = IF use_mock_data THEN [mock |-> store, sheets |-> <<>>]
                                  ELSE [mock |-> <<>>, sheets |-> store]
    /\ budgets \in {<<>>, <<FoodBudget>>}
    /\ expense_cache = <<>>
    /\ cache_last_updated = NoTime
    /\ now = 0
    /\ result = NoResult
    /\ hist = NoHistory
    /\ InitEntityIdle /\ InitExtIdle /\ InitQueryIdle /\ InitConfigIdle

ServiceNext ==
    \/ GetExpenses({TRUE}) /\ UNCHANGED hist
    \/ AddExpense(ValidInputs \cup InvalidInputs, CheckOutcomes, MaxStore) /\ UNCHANGED hist
    \/ UpdateExpense(ValidInputs, CheckOutcomes) /\ UNCHANGED hist
    \/ DeleteExpense /\ UNCHANGED hist

SpecService == ServiceInit /\ [][ServiceNext]_vars

\* ---- The cache over time, across writes, switches and syncs
CacheInit ==
    /\ use_mock_data = TRUE
    /\ data = [mock |-> <<Spent80>>, sheets |-> <<>>]
    /\ budgets \in {<<>>, <<FoodBudget>>}
    /\ expense_cache = <<>>
    /\ cache_last_updated = NoTime
    /\ now = 0
    /\ result = NoResult
    /\ hist = NoHistory
    /\ InitEntityIdle /\ InitExtIdle /\ InitQueryIdle /\ InitConfigIdle

CacheNext ==
    \/ GetExpenses(BOOLEAN) /\ Tracked
    \/ AddExpense(CacheInputs, {"ok"}, MaxRows) /\ Tracked
    \/ UpdateExpense(CacheInputs, {"ok"}) /\ Tracked
    \/ DeleteExpense /\ Tracked
    \/ SwitchDataSource /\ Tracked
    \/ SyncData /\ Tracked
    \/ Tick

SpecCache == CacheInit /\ [][CacheNext]_vars

(***************************************************************************)
(* Properties of the cache                                                 *)
(***************************************************************************)
IsCachedGet == result.op = "get_expenses" /\ result.use_cache

\* No successful write, switch or sync and no reload happened since the
\* previous get_expenses(use_cache=True)
Undisturbed == ~result.disturbed

\* C3 as stated: of two get_expenses(use_cache=True) calls less than five minutes
\* apart with nothing but failed calls and the passing of time between them, the
\* second returns the same list and makes no call to the data service; after a
\* successful add_expense between them the second call reloads.
C3_FiveMinutesApart ==
    IsCachedGet =>
        /\ (result.prev_recent /\ Undisturbed)
              => (result.same_as_prev /\ result.calls = 0)
        /\ (result.had_prev /\ result.add_pending) => result.calls = 1

\* C3: of two get_expenses(use_cache=True) calls, the second made less than five
\* minutes after the capture of the snapshot the first one returned, with no
\* successful write, switch, sync or reload between them, the second returns the
\* same list and makes no call to the data service; when an add_expense succeeded
\* between them and nothing reloaded the cache since, the second call reloads.
C3_WithinFiveMinutesOfCapture ==
    IsCachedGet =>
        /\ (result.capture_recent /\ Undisturbed)
              => (result.same_as_prev /\ result.calls = 0)
        /\ (result.had_prev /\ result.add_pending) => result.calls = 1

\* C3 witness: a second call inside the window was answered from the cache, the
\* snapshot being some minutes old.
C3_SecondCallFromCache ==
    /\ IsCachedGet
    /\ result.capture_recent /\ Undisturbed
    /\ result.same_as_prev /\ result.calls = 0
    /\ result.snap_age > 0

\* C4: get_expenses(use_cache=True) never returns a snapshot captured before the
\* most recent successful add, update, delete or data-source switch, nor one
\* captured five minutes or more before the call.
C4_SnapshotFresh ==
    IsCachedGet => (~hist.stale /\ result.snap_age < CacheDurationMinutes)

\* C4 witness: a call that followed a successful add reloaded.
C4_ReloadAfterWrite ==
    /\ IsCachedGet
    /\ result.had_prev /\ result.add_pending /\ result.calls = 1
    /\ result.snap_age = 0

(***************************************************************************)
(* Properties of the writes                                                *)
(***************************************************************************)
IsValidInput(a) ==
    ValidateError(NewExpense(a.Date, a.Amount, a.Category, a.Description)) = "ok"

\* C5: a failing add_expense never reaches the data service with invalid input
\* and leaves the stored list as it was.
C5_FailedAddLeavesStore ==
    (result.op = "add_expense" /\ ~result.ok) =>
        /\ ~result.changed
        /\ ~IsValidInput(result.args) => result.passed = <<>>

\* C6: for valid input, add_expense and update_expense hand the given record to
\* the data service and return the service's answer as their success flag,
\* whether the budget check warns, finds no budget or fails.
C6_WarningNeverBlocks ==
    (result.op \in {"add_expense", "update_expense"} /\ IsValidInput(result.args)) =>
        /\ result.passed = <<result.args>>
        /\ result.ok = result.storage_ok

\* C6 witness: an add_expense that produced a budget warning succeeded.
C6_AddedWithWarning ==
    /\ result.op = "add_expense"
    /\ result.ok
    /\ result.warning.kind # "none"
    /\ result.passed = <<result.args>>

\* C7: with an active budget of limit L and S spent in the month, a successful
\* add of an expense -a with S + a > L carries the "exceeds budget" warning with
\* overage S + a - L.
C7_ExceedsByOverage ==
    (/\ result.op = "add_expense" /\ result.ok
     /\ result.seen # <<>>
     /\ result.args.Amount < 0
     /\ result.seen[1].spent - result.args.Amount > result.seen[1].limit)
    => result.warning =
          [kind |-> "exceeds",
           value |-> result.seen[1].spent - result.args.Amount - result.seen[1].limit]

\* C8: with an active budget of limit L and projected spend P = S + a not above
\* L, a successful add of an expense -a carries the percentage warning, showing
\* P / L * 100, exactly when P is at least 80% of L.
C8_PercentFromEighty ==
    (/\ result.op = "add_expense" /\ result.ok
     /\ result.seen # <<>>
     /\ result.args.Amount < 0
     /\ result.seen[1].spent - result.args.Amount <= result.seen[1].limit)
    => LET P == result.seen[1].spent - result.args.Amount
           L == result.seen[1].limit
       IN  IF P * 10 >= L * 8
           THEN result.warning = [kind |-> "percent", value |-> PercentTenths(P, L)]
           ELSE result.warning = NoWarning

(***************************************************************************)
(* ConfigManager (config/config_manager.py) and the recurring expense      *)
(* processor of the main window (gui/main_window.py).                      *)
(* The operators thread the configuration state as a record c with fields  *)
(* file (the document in config.yaml), mtime, cm (ConfigManager._config),  *)
(* cm_at (ConfigManager._last_modified), win (the document MainWindow      *)
(* .config refers to) and shared (both references name one object, so a    *)
(* change made through one is seen through the other).                     *)
(***************************************************************************)
MaxWrites       == 3
MaxMaterialized == 4

\* A change made to the object ConfigManager._config refers to
SetCm(c, doc) ==
    [c EXCEPT !.cm = <<doc>>, !.win = IF c.shared THEN doc ELSE c.win]

\* A change made to the object MainWindow.config refers to
SetWin(c, doc) ==
    [c EXCEPT !.win = doc, !.cm = IF c.shared THEN <<doc>> ELSE c.cm]

\* ConfigManager._config_needs_reload
config_needs_reload(c) == c.cm_at # c.mtime

\* ConfigManager._load_config: a new object, read from the file
load_config(c) ==
    [c EXCEPT !.cm = <<c.file>>, !.cm_at = c.mtime, !.shared = FALSE]

\* ConfigManager.get_config: the state after the call; the call returns c.cm[1]
get_config(c) ==
    IF c.cm = <<>> \/ config_needs_reload(c) THEN load_config(c) ELSE c

\* yaml.dump(config, file) on config.yaml, config the manager's object
dump_config(c) == [c EXCEPT !.file = c.cm[1], !.mtime = c.mtime + 1]

\* ConfigManager.save_config(config), config the manager's object: the file is
\* written, _config keeps referring to the object, _last_modified is not touched
save_config(c) == dump_config(c)

\* f"[Auto] {description}"
AutoDescription(d) ==
    CASE d = "Rent" -> "[Auto] Rent"
      [] d = "Food" -> "[Auto] Food"
      [] OTHER      -> "[Auto] Recurring expense"

\* A test that lets a rule through only after its day.
should_process_after(rule, dt) ==
    dt.d > rule.day_of_month /\ rule.last_processed # MonthKey(dt)

\* should_process of check_and_process_recurring_expenses
should_process(rule, dt) ==
    dt.d >= rule.day_of_month /\ rule.last_processed # MonthKey(dt)

\* target_date: the rule's day in the current month, the month's last day when
\* replace(day=target_day) raises ValueError
target_date(rule, dt) ==
    IF rule.day_of_month <= DaysInMonth(dt.y, dt.m)
    THEN Date(dt.y, dt.m, rule.day_of_month)
    ELSE Date(dt.y, dt.m, DaysInMonth(dt.y, dt.m))

RECURSIVE process_rules(_, _, _, _, _)
\* A loop that gives up at the first rule whose write fails.
process_rules_until_failure(i, rules, s, oks, dt) ==
    LET rec == RawRecord(target_date(rules[i], dt), rules[i].amount,
                         rules[i].category, AutoDescription(rules[i].description))
        Count(o, rest) == [rest EXCEPT !.count = rest.count + 1]
        Mark(o) ==
            IF ~o.ok THEN [rules |-> rules, s |-> o.s, count |-> 0]
            ELSE Bind(process_rules(i + 1,
                                    [rules EXCEPT ![i].last_processed = MonthKey(dt)],
                                    o.s, oks, dt),
                      LAMBDA rest : Count(o, rest))
    IN  IF i > Len(rules) THEN [rules |-> rules, s |-> s, count |-> 0]
        ELSE IF ~rules[i].enabled \/ ~should_process(rules[i], dt)
        THEN process_rules(i + 1, rules, s, oks, dt)
        ELSE Bind(add_expense(s, rec, [check |-> "ok", load_ok |-> TRUE,
                                       write_ok |-> oks[i]]),
                  Mark)

\* The for loop of check_and_process_recurring_expenses from rule i on:
\* [rules, s, count], oks[i] being whether the data service accepts the write
\* made for rule i
process_rules(i, rules, s, oks, dt) ==
    LET rec == RawRecord(target_date(rules[i], dt), rules[i].amount,
                         rules[i].category, AutoDescription(rules[i].description))
        Count(o, rest) ==
            [rest EXCEPT !.count = rest.count + (IF o.ok THEN 1 ELSE 0)]
        Mark(o) ==
            Bind(process_rules(i + 1,
                               IF o.ok
                               THEN [rules EXCEPT ![i].last_processed = MonthKey(dt)]
                               ELSE rules,
                               o.s, oks, dt),
                 LAMBDA rest : Count(o, rest))
    IN  IF i > Len(rules) THEN [rules |-> rules, s |-> s, count |-> 0]
        ELSE IF ~rules[i].enabled \/ ~should_process(rules[i], dt)
        THEN process_rules(i + 1, rules, s, oks, dt)
        ELSE Bind(add_expense(s, rec, [check |-> "ok", load_ok |-> TRUE,
                                       write_ok |-> oks[i]]),
                  Mark)

\* MainWindow.refresh_data: the expense list and the summary are rebuilt from
\* get_expenses()
refresh_data(s, load_ok) ==
    Bind(get_expenses(s, TRUE, load_ok), LAMBDA o : get_expenses(o.s, TRUE, load_ok).s)

\* MainWindow.check_and_process_recurring_expenses: [c, s].  The loop marks the
\* rules of the window's object; when a rule was processed the object handed
\* out by get_config() is written to config.yaml and the lists are refreshed.
check_and_process_recurring_expenses(c, s, oks, load_ok, dt) ==
    LET Save(r, c1) ==
            IF r.count > 0
            THEN [c |-> Bind(get_config(c1), dump_config),
                  s |-> refresh_data(r.s, load_ok)]
            ELSE [c |-> c1, s |-> r.s]
        After(r) ==
            Bind(SetWin(c, [c.win EXCEPT !.recurring = r.rules]),
                 LAMBDA c1 : Save(r, c1))
    IN  Bind(process_rules(1, c.win.recurring, s, oks, dt), After)

(***************************************************************************)
(* The main window, its ConfigManager and the recurring expense processor  *)
(* as a state machine.  The transactions go to the sheets service, the     *)
(* window's default; config.yaml and the sheet outlive the application.    *)
(***************************************************************************)
\* The days on which something happens, in order
Calendar ==
    <<Date(2024, 11, 4), Date(2024, 11, 10), Date(2024, 11, 20), Date(2024, 12, 4)>>

NewRule(amount, category, description, day_of_month, enabled) ==
    [amount |-> amount, category |-> category, description |-> description,
     day_of_month |-> day_of_month, last_processed |-> <<2024, 10>>,
     enabled |-> enabled]

RentRule == NewRule(0 - 40, "Rent", "Rent", 10, TRUE)

FoodRule(enabled) == NewRule(0 - 10, "Food", "Food", 15, enabled)

InitRules == {<<RentRule>>, <<RentRule, FoodRule(TRUE)>>, <<RentRule, FoodRule(FALSE)>>}

\* The configuration state as the operators take it
Cfg == [file |-> config_file, mtime |-> file_mtime, cm |-> cm_config,
        cm_at |-> cm_last_modified, win |-> win_config, shared |-> win_shared]

CommitConfig(c) ==
    /\ config_file' = c.file
    /\ file_mtime' = c.mtime
    /\ cm_config' = c.cm
    /\ cm_last_modified' = c.cm_at
    /\ win_config' = c.win
    /\ win_shared' = c.shared

\* The last_processed of rule i of a document, None when the document has no
\* such rule
LastProcessed(doc, i) ==
    IF i <= Len(doc.recurring) THEN doc.recurring[i].last_processed ELSE <<>>

\* What a pass meets and leaves: per rule of the window's list whether the rule
\* is enabled, not yet processed this month and its day reached, whether the
\* data service accepts a write made for it, the rule as the pass found it, and
\* the rule's last_processed in the window's object and in config.yaml when the
\* pass has returned (c)
PassLog(rules, oks, dt, c) ==
    [i \in 1..Len(rules) |->
        [description |-> rules[i].description,
         month       |-> MonthKey(dt),
         due         |-> /\ rules[i].enabled
                         /\ rules[i].last_processed # MonthKey(dt)
                         /\ dt.d >= rules[i].day_of_month,
         write_ok    |-> oks[i],
         rule        |-> rules[i],
         on          |-> dt,
         win_after   |-> LastProcessed(c.win, i),
         file_after  |-> LastProcessed(c.file, i)]]

RoomForPass ==
    /\ file_mtime < MaxWrites
    /\ Len(data.sheets) + Len(win_config.recurring) <= MaxMaterialized

\* The application is closed and started again: MainWindow.__init__ with a new
\* ConfigManager and a new controller, then load_initial_data
Restart ==
    \E load_ok \in BOOLEAN, oks \in [1..Len(config_file.recurring) -> BOOLEAN] :
        \E c0 \in {load_config([Cfg EXCEPT !.cm = <<>>, !.cm_at = NoTime])},
           s1 \in {refresh_data(invalidate_cache(S), load_ok)} :
        \E c1 \in {[c0 EXCEPT !.win = c0.cm[1], !.shared = TRUE]} :
        \E o \in {check_and_process_recurring_expenses(c1, s1, oks, load_ok, today)} :
            /\ file_mtime < MaxWrites
            /\ Len(data.sheets) + Len(config_file.recurring) <= MaxMaterialized
            /\ CommitConfig(o.c)
            /\ Commit(o.s)
            /\ pass_log' = PassLog(c1.win.recurring, oks, today, o.c)
            /\ UNCHANGED <<today, result, hist, entity_vars, ext_vars, query_vars>>

\* MainWindow.process_all_recurring_expenses, confirmed by the user
ProcessAllRecurringExpenses ==
    \E load_ok \in BOOLEAN, oks \in [1..Len(win_config.recurring) -> BOOLEAN] :
        \E o \in {check_and_process_recurring_expenses(Cfg, S, oks, load_ok, today)} :
            /\ win_config.recurring # <<>>
            /\ RoomForPass
            /\ CommitConfig(o.c)
            /\ Commit(o.s)
            /\ pass_log' = PassLog(win_config.recurring, oks, today, o.c)
            /\ UNCHANGED <<today, result, hist, entity_vars, ext_vars, query_vars>>

\* EmailScheduler._record_report_sent
RecordReportSent ==
    \E c1 \in {get_config(Cfg)} :
    \E c2 \in {SetCm(c1, [c1.cm[1] EXCEPT !.last_monthly_report_sent = <<today>>])} :
    \E c3 \in {save_config(c2)} :
        /\ file_mtime < MaxWrites
        /\ CommitConfig(c3)
        /\ UNCHANGED <<today, pass_log, service_vars, entity_vars, ext_vars, query_vars>>

\* MainWindow.save_email_settings
SaveEmailSettings ==
    \E server \in {"smtp.a", "smtp.b"} :
        \E c1 \in {get_config(Cfg)} :
        \E c2 \in {SetCm(c1, [c1.cm[1] EXCEPT !.smtp_server = server])} :
        \E c3 \in {save_config(c2)} :
        \E c4 \in {[c3 EXCEPT !.win = c3.cm[1], !.shared = TRUE]} :
            /\ file_mtime < MaxWrites
            /\ CommitConfig(c4)
            /\ UNCHANGED <<today, pass_log, service_vars, entity_vars, ext_vars, query_vars>>

\* A component reads the configuration: config_manager.get_config()
ReadConfig ==
    /\ \E c \in {get_config(Cfg)} : CommitConfig(c)
    /\ UNCHANGED <<today, pass_log, service_vars, entity_vars, ext_vars, query_vars>>

\* The next day of the calendar comes
NextDay ==
    \E k \in 1..(Len(Calendar) - 1) :
        /\ today = Calendar[k]
        /\ today' = Calendar[k + 1]
        /\ UNCHANGED <<config_file, file_mtime, cm_config, cm_last_modified,
                       win_config, win_shared, pass_log, service_vars,
                       entity_vars, ext_vars, query_vars>>

\* The state after MainWindow.__init__ on a configuration with rules last
\* processed in October
RecurringInit ==
    /\ today = Calendar[1]
    /\ config_file \in {[NoConfig EXCEPT !.recurring = rules] : rules \in InitRules}
    /\ file_mtime = 0
    /\ cm_config = <<config_file>>
    /\ cm_last_modified = 0
    /\ win_config = config_file
    /\ win_shared = TRUE
    /\ pass_log = <<>>
    /\ data = [mock |-> <<>>, sheets |-> <<>>]
    /\ use_mock_data = FALSE
    /\ budgets = <<>>
    /\ expense_cache = <<>>
    /\ cache_last_updated = NoTime
    /\ now = 0
    /\ result = NoResult
    /\ hist = NoHistory
    /\ InitEntityIdle /\ InitExtIdle /\ InitQueryIdle

RecurringNext ==
    \/ Restart
    \/ ProcessAllRecurringExpenses
    \/ RecordReportSent
    \/ SaveEmailSettings
    \/ ReadConfig
    \/ NextDay

SpecRecurring == RecurringInit /\ [][RecurringNext]_vars

\* The number of stored transactions the processor made from the rule with the
\* given description in the given month
Materialized(description, month) ==
    Cardinality({j \in 1..Len(data.sheets) :
                    /\ data.sheets[j].Description = AutoDescription(description)
                    /\ MonthKey(data.sheets[j].Date) = month})

\* C1: for every rule and every month the processor makes at most one
\* transaction, across passes, restarts and configuration saves.
C1_AtMostOncePerMonth ==
    \A description \in {"Rent", "Food"}, k \in 1..Len(Calendar) :
        Materialized(description, MonthKey(Calendar[k])) <= 1

\* C2: after a pass that met an enabled rule, not yet processed this month, on
\* or after its day, with the data service accepting the write, a transaction of
\* the rule exists in that month.
C2_DueRuleMaterialized ==
    \A i \in 1..Len(pass_log) :
        (pass_log[i].due /\ pass_log[i].write_ok)
            => Materialized(pass_log[i].description, pass_log[i].month) >= 1

\* C2 witness: a pass on the very day of a rule has made the rule's transaction.
C2_ProcessedOnItsDay ==
    \E i \in 1..Len(pass_log) :
        /\ pass_log[i].due /\ pass_log[i].write_ok
        /\ win_config.recurring[i].day_of_month = today.d
        /\ win_config.recurring[i].last_processed = MonthKey(today)
        /\ Materialized(pass_log[i].description, MonthKey(today)) = 1

\* Rule i of the last pass was due and the data service refused its write
FailedInPass(i) == pass_log[i].due /\ ~pass_log[i].write_ok

\* Rule i of the last pass was due and the data service accepted its write
MaterializedInPass(i) == pass_log[i].due /\ pass_log[i].write_ok

\* C21: in a pass where the write for one due rule failed, every other due
\* rule, before or after it in the list, has its transaction in the month and
\* is marked as processed in the window's object, and the failed rule keeps the
\* last_processed it had, so that it is still due.
C21_FailureDoesNotStopThePass ==
    \A j \in 1..Len(pass_log) :
        FailedInPass(j) =>
            /\ pass_log[j].win_after = pass_log[j].rule.last_processed
            /\ pass_log[j].win_after # pass_log[j].month
            /\ \A i \in 1..Len(pass_log) :
                  MaterializedInPass(i) =>
                      /\ Materialized(pass_log[i].description, pass_log[i].month) >= 1
                      /\ pass_log[i].win_after = pass_log[i].month

\* C21 witness: the first rule failed and the second was made in the same pass.
C21_SecondMadeAfterFirstFailed ==
    /\ Len(pass_log) = 2
    /\ FailedInPass(1)
    /\ MaterializedInPass(2)
    /\ pass_log[2].win_after = pass_log[2].month
    /\ Materialized(pass_log[1].description, pass_log[1].month) = 0
    /\ Materialized(pass_log[2].description, pass_log[2].month) = 1

\* C25: when a pass has made the transaction of a rule, config.yaml holds the
\* current month as the rule's last_processed once the pass has returned,
\* whatever writes of the configuration came before the pass.
C25_ProcessedRuleIsPersisted ==
    \A i \in 1..Len(pass_log) :
        MaterializedInPass(i) => pass_log[i].file_after = pass_log[i].month

(***************************************************************************)
(* The Expense entity as a state machine: one object, constructed and then *)
(* updated any number of times.                                            *)
(***************************************************************************)
EntityDates        == {D1, D2, BadDay}
EntityAmounts      == {0, 0 - 40, 50}
EntityCategories   == {"Food", " Food ", "  ", ""}
EntityDescriptions == {"", " Food ", "Rent"}

OptionalOf(V) == {<<>>} \cup {<<v>> : v \in V}

\* Expense(date, amount, category, description); when __post_init__ raises no
\* object comes into being
Construct ==
    \E date \in EntityDates, amount \in EntityAmounts,
       category \in EntityCategories, description \in EntityDescriptions :
        LET e == NewExpense(date, amount, category, description)
        IN  /\ obj = <<>>
            /\ obj_raised' = (ValidateError(e) # "ok")
            /\ obj' = IF ValidateError(e) # "ok" THEN <<>> ELSE <<validate(e)>>
            /\ UNCHANGED <<query_vars, ext_vars, service_vars, config_vars>>

\* expense.update(**kwargs)
Update ==
    \E kw \in [date : OptionalOf(EntityDates), amount : OptionalOf(EntityAmounts),
                category : OptionalOf(EntityCategories),
                description : OptionalOf(EntityDescriptions)] :
        /\ obj # <<>>
        /\ obj_raised' = (ValidateError(Apply(obj[1], kw)) # "ok")
        /\ obj' = <<update(obj[1], kw)>>
        /\ UNCHANGED <<query_vars, ext_vars, service_vars, config_vars>>

EntityInit ==
    InitEntityIdle /\ InitExtIdle /\ InitQueryIdle /\ InitServiceIdle /\ InitConfigIdle

EntityNext == Construct \/ Update

SpecEntity == EntityInit /\ [][EntityNext]_vars

\* The Transaction invariant: amount non-zero, date a calendar date, category
\* non-empty after trimming
Valid(e) ==
    /\ e.amount # 0
    /\ ParsesAsDate(e.date)
    /\ Strip(e.category) # ""

\* C10: every Expense object satisfies the Transaction invariant after any
\* sequence of construction and update calls, rejected updates included.
C10_ObjectAlwaysValid == obj # <<>> => Valid(obj[1])

(***************************************************************************)
(* Budget.get_spending_for_month applied to drawn arguments                *)
(***************************************************************************)
MaxExpenses == 3

QueryExpenses ==
    {NewExpense(D1, 0 - 50, "Food", ""), NewExpense(D1, 1000, "Food", ""),
     NewExpense(D1, 0 - 30, "FOOD", ""), NewExpense(D1, 0 - 20, "Rent", ""),
     NewExpense(D2, 0 - 70, "Food", "")}

SeqsUpTo(V, n) == UNION {[1..k -> V] : k \in 0..n}

QueryInit ==
    /\ q_budget \in {<<NewBudget(c, 200, Date(2024, 1, 1))>> : c \in {"Food", "Rent"}}
    /\ q_expenses \in SeqsUpTo(QueryExpenses, MaxExpenses)
    /\ q_month \in {<<2024, 11>>, <<2024, 12>>}
    /\ q_spending = <<>>
    /\ InitEntityIdle /\ InitExtIdle /\ InitServiceIdle /\ InitConfigIdle

\* budget.get_spending_for_month(year, month, expenses)
GetSpendingForMonth ==
    /\ q_spending = <<>>
    /\ q_spending' = <<get_spending_for_month(q_budget[1], q_month[1], q_month[2],
                                               q_expenses)>>
    /\ UNCHANGED <<q_budget, q_expenses, q_month, entity_vars, ext_vars, service_vars,
                   config_vars>>

QueryNext == GetSpendingForMonth

SpecQuery == QueryInit /\ [][QueryNext]_vars

RECURSIVE SumOver(_, _)
\* The sum of f[i] over the indices in I
SumOver(f, I) ==
    IF I = {} THEN 0
    ELSE LET i == CHOOSE j \in I : TRUE IN f[i] + SumOver(f, I \ {i})

\* The positions of the transactions the spend of the budget counts
Counted ==
    {i \in 1..Len(q_expenses) :
        /\ Lower(q_expenses[i].category) = Lower(q_budget[1].category)
        /\ MonthKey(q_expenses[i].date) = q_month
        /\ q_expenses[i].amount < 0}

\* C9: get_spending_for_month returns the sum of the absolute values of exactly
\* the transactions of the budget's category (compared without case), dated in
\* the given month, with a negative amount; credits never reduce the result.
C9_SpendingIsSumOfNegatives ==
    q_spending # <<>> =>
        q_spending[1] = SumOver([i \in 1..Len(q_expenses) |-> Abs(q_expenses[i].amount)],
                                Counted)

\* C9 witness: the call on [-50 Food, +1000 Food] has returned 50.
C9_CreditIgnored ==
    /\ q_expenses = <<NewExpense(D1, 0 - 50, "Food", ""), NewExpense(D1, 1000, "Food", "")>>
    /\ q_budget[1].category = "Food"
    /\ q_month = <<2024, 11>>
    /\ q_spending = <<50>>

(***************************************************************************)
(* Expense.to_dict and Expense.from_dict (models/expense.py).  A dict is   *)
(* the function from its keys to its values.  An identifier or timestamp   *)
(* is None, a given token, or the value uuid4() / datetime.now() produced  *)
(* in a numbered call, so that two calls never produce the same one.       *)
(***************************************************************************)
None == <<>>

\* dict.get(key, default)
Get(d, k, default) == IF k \in DOMAIN d THEN d[k] ELSE default

\* Expense(**kw): the dataclass defaults, then __post_init__ (timestamps filled
\* in, validate).  raised tells whether validate raised; obj is the object.
Expense(kw, call) ==
    LET created == IF Get(kw, "created_at", None) = None
                   THEN <<"now", call>> ELSE kw.created_at
        updated == IF Get(kw, "updated_at", None) = None
                   THEN created ELSE kw.updated_at
        e == [date        |-> kw.date,
              amount      |-> kw.amount,
              category    |-> kw.category,
              description |-> Get(kw, "description", ""),
              id          |-> Get(kw, "id", <<"uuid4", call>>),
              created_at  |-> created,
              updated_at  |-> updated]
    IN  [raised |-> ValidateError(e) # "ok", obj |-> validate(e)]

\* Expense.to_dict
Expense_to_dict(e) ==
    [id |-> e.id, date |-> e.date, amount |-> e.amount, category |-> e.category,
     description |-> e.description, created_at |-> e.created_at,
     updated_at |-> e.updated_at]

\* The four value fields from_dict reads, a capitalised key taking precedence
\* over the lowercase one.  A missing date is None, which strptime rejects: it
\* is a value that is no date.  float() leaves a whole amount as it is.
ExpenseData(raw) ==
    [date        |-> Get(raw, "Date", Get(raw, "date", NotADate)),
     amount      |-> Get(raw, "Amount", Get(raw, "amount", 0)),
     category    |-> Get(raw, "Category", Get(raw, "category", "")),
     description |-> Get(raw, "Description", Get(raw, "description", ""))]

\* A from_dict that reads the value fields only.
Expense_from_dict_legacy(raw, call) == Expense(ExpenseData(raw), call)

\* Expense.from_dict
Expense_from_dict(raw, call) ==
    LET ident   == IF "id" \in DOMAIN raw THEN [id |-> raw.id] ELSE <<>>
        created == IF "created_at" \in DOMAIN raw \/ "Created At" \in DOMAIN raw
                   THEN [created_at |->
                            Get(raw, "created_at", Get(raw, "Created At", None))]
                   ELSE <<>>
        updated == IF "updated_at" \in DOMAIN raw
                   THEN [updated_at |-> raw.updated_at] ELSE <<>>
    IN  Expense(ident @@ created @@ updated @@ ExpenseData(raw), call)

(***************************************************************************)
(* The conversion as a state machine: a transaction t is constructed,      *)
(* possibly updated, written out as a dict (to_dict, or the row of a       *)
(* worksheet with its capitalised headers) and read back with from_dict.   *)
(***************************************************************************)
\* t = Expense(date, amount, category, description)
NewTransaction ==
    \E date \in EntityDates, amount \in EntityAmounts,
       category \in EntityCategories, description \in EntityDescriptions :
        LET r == Expense([date |-> date, amount |-> amount, category |-> category,
                          description |-> description], 0)
        IN  /\ rt_t = <<>>
            /\ ~r.raised
            /\ rt_t' = <<r.obj>>
            /\ UNCHANGED <<rt_dict, rt_back, entity_vars, query_vars, service_vars,
                           config_vars, agg_vars, sched_vars>>

\* t.update(description=...)
UpdateTransaction ==
    \E description \in EntityDescriptions :
        /\ rt_t # <<>> /\ rt_dict = <<>>
        /\ rt_t[1].updated_at = rt_t[1].created_at
        /\ rt_t' = <<validate([rt_t[1] EXCEPT !.description = description,
                                              !.updated_at = <<"now", 1>>])>>
        /\ UNCHANGED <<rt_dict, rt_back, entity_vars, query_vars, service_vars,
                       config_vars, agg_vars, sched_vars>>

\* data = t.to_dict()
ToDict ==
    /\ rt_t # <<>> /\ rt_dict = <<>>
    /\ rt_dict' = <<Expense_to_dict(rt_t[1])>>
    /\ UNCHANGED <<rt_t, rt_back, entity_vars, query_vars, service_vars,
                   config_vars, agg_vars, sched_vars>>

\* data = the values of t under the capitalised keys Date, Amount, Category,
\* Description
ToCapitalized ==
    /\ rt_t # <<>> /\ rt_dict = <<>>
    /\ rt_dict' = <<RawRecord(rt_t[1].date, rt_t[1].amount, rt_t[1].category,
                              rt_t[1].description)>>
    /\ UNCHANGED <<rt_t, rt_back, entity_vars, query_vars, service_vars,
                   config_vars, agg_vars, sched_vars>>

\* Expense.from_dict(data)
FromDict ==
    /\ rt_dict # <<>> /\ rt_back = <<>>
    /\ rt_back' = <<Expense_from_dict(rt_dict[1], 2)>>
    /\ UNCHANGED <<rt_t, rt_dict, entity_vars, query_vars, service_vars,
                   config_vars, agg_vars, sched_vars>>

CodecInit ==
    /\ InitCodecIdle /\ InitAggIdle /\ InitSchedIdle
    /\ InitEntityIdle /\ InitQueryIdle /\ InitServiceIdle /\ InitConfigIdle

CodecNext ==
    \/ NewTransaction
    \/ UpdateTransaction
    \/ ToDict
    \/ ToCapitalized
    \/ FromDict

SpecCodec == CodecInit /\ [][CodecNext]_vars

\* C11: from_dict(t.to_dict()) succeeds and yields the id, date, amount,
\* category, description, created_at and updated_at of t; from_dict on the
\* capitalised keys succeeds and yields the date, amount, category and
\* description of t.
C11_RoundTrip ==
    rt_back # <<>> =>
        /\ ~rt_back[1].raised
        /\ rt_back[1].obj.date = rt_t[1].date
        /\ rt_back[1].obj.amount = rt_t[1].amount
        /\ rt_back[1].obj.category = rt_t[1].category
        /\ rt_back[1].obj.description = rt_t[1].description
        /\ rt_dict[1] = Expense_to_dict(rt_t[1]) => rt_back[1].obj = rt_t[1]

\* C11 witness: a transaction updated after its creation came back from its
\* to_dict with the later updated_at.
C11_UpdatedCameBack ==
    /\ rt_back # <<>>
    /\ rt_dict[1] = Expense_to_dict(rt_t[1])
    /\ rt_t[1].updated_at # rt_t[1].created_at
    /\ rt_back[1].obj.updated_at = <<"now", 1>>
    /\ rt_back[1].obj.id = <<"uuid4", 0>>

(***************************************************************************)
(* ExpenseAggregator (models/expense.py).  The amounts are Python floats,  *)
(* and sum() adds them from left to right, every addition rounded to the   *)
(* nearest float, ties to the even significand.  The model keeps           *)
(* MantissaBits bits of significand, where the program's doubles keep 53;  *)
(* a float is written as the whole number it stands for.                   *)
(***************************************************************************)
MantissaBits == 4

RECURSIVE Pow2(_)
Pow2(k) == IF k = 0 THEN 1 ELSE 2 * Pow2(k - 1)

RECURSIVE Ulp(_, _)
\* The spacing of the floats around the magnitude a: the least power of two u,
\* from u on, with a < 2^MantissaBits * u
Ulp(a, u) == IF a < Pow2(MantissaBits) * u THEN u ELSE Ulp(a, 2 * u)

\* The float nearest to the number n, ties to even
RoundToFloat(n) ==
    LET a == Abs(n)
        u == Ulp(a, 1)
        q == a \div u
        r == a % u
        k == IF 2 * r > u \/ (2 * r = u /\ q % 2 = 1) THEN q + 1 ELSE q
    IN  IF n < 0 THEN 0 - k * u ELSE k * u

\* float.__add__
FloatAdd(a, b) == RoundToFloat(a + b)

RECURSIVE FloatSumFrom(_, _)
FloatSumFrom(acc, amounts) ==
    IF amounts = <<>> THEN acc
    ELSE FloatSumFrom(FloatAdd(acc, Head(amounts)), Tail(amounts))

\* sum(iterable) over floats
FloatSum(amounts) == FloatSumFrom(0, amounts)

\* [exp.amount for exp in expenses if Keep(exp.amount)]
AmountsWhere(expenses, Keep(_)) ==
    LET F[i \in 0..Len(expenses)] ==
            IF i = 0 THEN <<>>
            ELSE IF Keep(expenses[i].amount) THEN Append(F[i - 1], expenses[i].amount)
            ELSE F[i - 1]
    IN  F[Len(expenses)]

\* ExpenseAggregator.total_amount
total_amount(expenses) ==
    FloatSum(AmountsWhere(expenses, LAMBDA a : TRUE))

\* ExpenseAggregator.total_expenses_only
total_expenses_only(expenses) ==
    FloatSum(AmountsWhere(expenses, LAMBDA a : a < 0))

\* ExpenseAggregator.total_income_only
total_income_only(expenses) ==
    FloatSum(AmountsWhere(expenses, LAMBDA a : a > 0))

\* ExpenseAggregator.total_spending_absolute
total_spending_absolute(expenses) == Abs(total_expenses_only(expenses))

(***************************************************************************)
(* The aggregator applied to drawn transaction lists                       *)
(***************************************************************************)
MaxAggregated == 3

\* Amounts that are floats: the largest odd significand, and small ones
AggAmounts == {Pow2(MantissaBits) - 1, 2, 0 - 2, 0 - 1}

AggExpenses == {NewExpense(D1, a, "Food", "") : a \in AggAmounts}

AggregateInit ==
    /\ agg_expenses \in SeqsUpTo(AggExpenses, MaxAggregated)
    /\ agg_totals = <<>>
    /\ InitCodecIdle /\ InitSchedIdle
    /\ InitEntityIdle /\ InitQueryIdle /\ InitServiceIdle /\ InitConfigIdle

\* The four totals of the same list
Aggregate ==
    /\ agg_totals = <<>>
    /\ agg_totals' = <<[total_amount            |-> total_amount(agg_expenses),
                        total_income_only       |-> total_income_only(agg_expenses),
                        total_expenses_only     |-> total_expenses_only(agg_expenses),
                        total_spending_absolute |-> total_spending_absolute(agg_expenses)]>>
    /\ UNCHANGED <<agg_expenses, entity_vars, query_vars, service_vars, config_vars,
                   codec_vars, sched_vars>>

AggregateNext == Aggregate

SpecAggregate == AggregateInit /\ [][AggregateNext]_vars

\* C12: for every transaction list total_income_only + total_expenses_only is
\* total_amount, total_expenses_only <= 0 <= total_income_only, and
\* total_spending_absolute is the absolute value of total_expenses_only.
C12_IncomePlusExpensesIsTotal ==
    agg_totals # <<>> =>
        /\ FloatAdd(agg_totals[1].total_income_only, agg_totals[1].total_expenses_only)
               = agg_totals[1].total_amount
        /\ agg_totals[1].total_expenses_only <= 0
        /\ 0 <= agg_totals[1].total_income_only
        /\ agg_totals[1].total_spending_absolute = Abs(agg_totals[1].total_expenses_only)

(***************************************************************************)
(* Reading through the controller: search_expenses and                     *)
(* get_expense_summary (controllers/expense_controller.py), with the       *)
(* remaining filters of ExpenseFilter (models/expense.py).                 *)
(* A string argument that may be empty is <<>> ("") or <<value>>; so is an *)
(* Optional amount (None or a number).                                     *)
(***************************************************************************)
\* needle in hay, on lower-cased strings
Contains(hay, needle) ==
    \/ needle = ""
    \/ needle = hay
    \/ <<hay, needle>> \in {<<"food", "oo">>, <<"food", "foo">>, <<"rent", "en">>}

\* Expense.is_in_date_range
is_in_date_range(e, start_date, end_date) ==
    /\ ParsesAsDate(e.date) /\ ParsesAsDate(start_date) /\ ParsesAsDate(end_date)
    /\ DateLE(start_date, e.date)
    /\ DateLE(e.date, end_date)

\* ExpenseFilter.by_description_contains
by_description_contains(expenses, search_term) ==
    LET Has(e) == Contains(Lower(e.description), Lower(search_term))
    IN  SelectSeq(expenses, Has)

\* ExpenseFilter.by_date_range
by_date_range(expenses, start_date, end_date) ==
    LET In(e) == is_in_date_range(e, start_date, end_date)
    IN  SelectSeq(expenses, In)

\* ExpenseFilter.by_amount_range
by_amount_range(expenses, min_amount, max_amount) ==
    LET In(e) == min_amount <= e.amount /\ e.amount <= max_amount
    IN  SelectSeq(expenses, In)

\* The four filter steps of search_expenses on the list all, the amount step
\* being taken when Ranged holds of the two bounds
SearchSteps(all, f, Ranged(_, _)) ==
    LET Step1(x) == IF f.query # "" THEN by_description_contains(x, f.query) ELSE x
        Step2(x) == IF f.category # "" THEN by_category(x, f.category) ELSE x
        Step3(x) == IF f.start_date # <<>> /\ f.end_date # <<>>
                    THEN by_date_range(x, f.start_date[1], f.end_date[1]) ELSE x
        Step4(x) == IF Ranged(f.min_amount, f.max_amount)
                    THEN by_amount_range(x, f.min_amount[1], f.max_amount[1]) ELSE x
    IN  Bind(Bind(Bind(Bind(all, Step1), Step2), Step3), Step4)

\* A search that filters by amount as soon as one bound is given, the missing
\* bound taken as the given one.
search_expenses_either(s, f, io_ok) ==
    LET One(lo, hi) == lo # <<>> \/ hi # <<>>
        Fill(g) == [f EXCEPT !.min_amount = IF f.min_amount = <<>> THEN f.max_amount
                                            ELSE f.min_amount,
                             !.max_amount = IF f.max_amount = <<>> THEN f.min_amount
                                            ELSE f.max_amount]
    IN  Bind(get_expenses(s, TRUE, io_ok),
             LAMBDA g : [s |-> g.s, all |-> g.ret, calls |-> g.calls,
                         ret |-> SearchSteps(g.ret, Fill(g), One)])

\* ExpenseController.search_expenses: [s, all, ret, calls], all being what
\* get_expenses returned
search_expenses(s, f, io_ok) ==
    LET Both(lo, hi) == lo # <<>> /\ hi # <<>>
    IN  Bind(get_expenses(s, TRUE, io_ok),
             LAMBDA g : [s |-> g.s, all |-> g.ret, calls |-> g.calls,
                         ret |-> SearchSteps(g.ret, f, Both)])

\* The summary get_expense_summary returns when there are no expenses
ZeroSummary ==
    [total_income |-> 0, total_expenses |-> 0, net_balance |-> 0,
     this_month_income |-> 0, this_month_expenses |-> 0, this_month_balance |-> 0,
     last_month_income |-> 0, last_month_expenses |-> 0, last_month_balance |-> 0,
     daily_average |-> 0, count |-> 0, top_category |-> None, insights |-> <<>>]

\* (now.replace(day=1) - timedelta(days=1)): the year and month before dt's
PreviousMonth(dt) == IF dt.m = 1 THEN <<dt.y - 1, 12>> ELSE <<dt.y, dt.m - 1>>

\* ExpenseAggregator.by_category, the total of one category
CategoryTotal(expenses, category) ==
    FloatSum(AmountsWhere(SelectSeq(expenses, LAMBDA e : e.category = category),
                          LAMBDA a : TRUE))

\* max(category_totals.items(), key=value)[0]: the first category, in the order
\* of first appearance, whose total no other exceeds
TopCategory(expenses) ==
    LET Best(i) == \A j \in 1..Len(expenses) :
                       CategoryTotal(expenses, expenses[j].category)
                           <= CategoryTotal(expenses, expenses[i].category)
        i == CHOOSE k \in 1..Len(expenses) :
                 Best(k) /\ \A j \in 1..(k - 1) : ~Best(j)
    IN  expenses[i].category

\* The summary of a non-empty list at the date dt: the totals, the count and the
\* top category (the daily average, the category breakdown and the insight
\* texts are left out).  The amounts being whole, round(x, 2) changes nothing.
SummaryOf(expenses, dt) ==
    LET this == by_month(expenses, dt.y, dt.m)
        last == by_month(expenses, PreviousMonth(dt)[1], PreviousMonth(dt)[2])
    IN  [total_income        |-> total_income_only(expenses),
         total_expenses      |-> Abs(total_expenses_only(expenses)),
         net_balance         |-> total_amount(expenses),
         this_month_income   |-> total_income_only(this),
         this_month_expenses |-> Abs(total_expenses_only(this)),
         this_month_balance  |-> total_amount(this),
         last_month_income   |-> total_income_only(last),
         last_month_expenses |-> Abs(total_expenses_only(last)),
         last_month_balance  |-> total_amount(last),
         count               |-> Len(expenses),
         top_category        |-> TopCategory(expenses)]

\* ExpenseController.get_expense_summary: [s, all, ret, calls]
get_expense_summary(s, dt, io_ok) ==
    Bind(get_expenses(s, TRUE, io_ok),
         LAMBDA g : [s |-> g.s, all |-> g.ret, calls |-> g.calls,
                     ret |-> IF g.ret = <<>> THEN ZeroSummary
                             ELSE SummaryOf(g.ret, dt)])

(***************************************************************************)
(* The reading calls as a state machine, on stores that convert and on     *)
(* stores holding a row that does not.                                     *)
(***************************************************************************)
FoodRow == RawRecord(D1, 0 - 40, "Food", "Food")
RentRow == RawRecord(D2, 50, "Rent", "Rent")
CapsRow == RawRecord(D1, 0 - 10, "FOOD", "")
ZeroRow == RawRecord(D1, 0, "Food", "")

ReadStores ==
    {<<>>, <<FoodRow, RentRow, CapsRow>>, <<FoodRow, CapsRow>>, <<FoodRow, ZeroRow>>}

SearchFilters ==
    [query      : {"", "oo", "RENT"},
     category   : {"", "food"},
     start_date : {<<>>, <<Date(2024, 11, 1)>>},
     end_date   : {<<>>, <<D1>>},
     min_amount : {<<>>, <<0 - 40>>, <<0>>},
     max_amount : {<<>>, <<0 - 10>>}]

\* Every stored record converts to an Expense
Convertible(store) ==
    \A i \in 1..Len(store) : ValidateError(from_dict(store[i])) = "ok"

\* What a reading call returned: all is the list get_expenses gave, ret the
\* call's own return value; load_failed tells that the call reloaded and the
\* reload failed, by the request raising or by a record not converting
ReadResult(op, args, o, load_ok) ==
    [op |-> op, args |-> args, calls |-> o.calls, all |-> o.all, ret |-> o.ret,
     load_failed |-> o.calls = 1 /\ (~load_ok \/ ~Convertible(CurrentStore))]

\* controller.get_expenses(use_cache)
ReadExpenses ==
    \E use_cache \in BOOLEAN, load_ok \in LoadOutcomes(S) :
        \E g \in {get_expenses(S, use_cache, load_ok)} :
            /\ Commit(g.s)
            /\ result' = ReadResult("get_expenses", use_cache,
                                    [calls |-> g.calls, all |-> g.ret, ret |-> g.ret],
                                    load_ok)
            /\ UNCHANGED <<hist, entity_vars, ext_vars, query_vars, config_vars>>

\* controller.search_expenses(query, category, start_date, end_date, min_amount,
\* max_amount)
SearchExpenses ==
    \E f \in SearchFilters, load_ok \in LoadOutcomes(S) :
        \E o \in {search_expenses(S, f, load_ok)} :
            /\ Commit(o.s)
            /\ result' = ReadResult("search_expenses", f, o, load_ok)
            /\ UNCHANGED <<hist, entity_vars, ext_vars, query_vars, config_vars>>

\* controller.get_expense_summary()
GetExpenseSummary ==
    \E load_ok \in LoadOutcomes(S) :
        \E o \in {get_expense_summary(S, today, load_ok)} :
            /\ Commit(o.s)
            /\ result' = ReadResult("get_expense_summary", <<>>, o, load_ok)
            /\ UNCHANGED <<hist, entity_vars, ext_vars, query_vars, config_vars>>

ReadInit ==
    /\ use_mock_data \in BOOLEAN
    /\ \E store \in ReadStores :
          data = IF use_mock_data THEN [mock |-> store, sheets |-> <<>>]
                                  ELSE [mock |-> <<>>, sheets |-> store]
    /\ budgets = <<>>
    /\ expense_cache = <<>>
    /\ cache_last_updated = NoTime
    /\ now = 0
    /\ result = NoResult
    /\ hist = NoHistory
    /\ InitEntityIdle /\ InitExtIdle /\ InitQueryIdle /\ InitConfigIdle

ReadNext ==
    \/ ReadExpenses
    \/ SearchExpenses
    \/ GetExpenseSummary

SpecRead == ReadInit /\ [][ReadNext]_vars

\* The positions of the transactions of all that satisfy every supplied filter
Selected(all, f) ==
    {i \in 1..Len(all) :
        /\ f.query # "" => Contains(Lower(all[i].description), Lower(f.query))
        /\ f.category # "" => Lower(all[i].category) = Lower(f.category)
        /\ (f.start_date # <<>> /\ f.end_date # <<>>) =>
               DateLE(f.start_date[1], all[i].date) /\ DateLE(all[i].date, f.end_date[1])
        /\ (f.min_amount # <<>> /\ f.max_amount # <<>>) =>
               f.min_amount[1] <= all[i].amount /\ all[i].amount <= f.max_amount[1]}

C20_FailedReloadGivesEmpty ==
    /\ (result.op # "none" /\ result.load_failed) => result.all = <<>>
    /\ (result.op = "get_expense_summary" /\ result.all = <<>>) =>
           result.ret = ZeroSummary

\* C20 witness: the summary was asked of a store with a row of amount 0; the
\* reload failed and the all-zero summary came back.
C20_ZeroSummaryAfterBadRow ==
    /\ result.op = "get_expense_summary"
    /\ result.load_failed
    /\ CurrentStore = <<FoodRow, ZeroRow>>
    /\ result.ret = ZeroSummary

(***************************************************************************)
(* EmailScheduler (services/email_scheduler.py).  A time of day is a       *)
(* number of minutes since midnight; a datetime is [date, hm].             *)
(***************************************************************************)
\* The time of day of the schedule, f"{hour:02d}:{minute:02d}"
AtTime(sc) == sc.hour * 60 + sc.minute

Min(a, b) == IF a <= b THEN a ELSE b

\* EmailScheduler.get_next_scheduled_time at the date dt and the time of day hm:
\* None, or <<[date, hm]>> for the string "YYYY-MM-DD at HH:MM".  In the first
\* branch today.replace(day=...) raises ValueError when the month has no such
\* day; the outer except clause then returns None.
get_next_scheduled_time(sc, dt, hm) ==
    LET target == sc.day_of_month
        Ret(date) == <<[date |-> date, hm |-> AtTime(sc)]>>
    IN  IF ~sc.enabled THEN None
        ELSE IF dt.d < target
        THEN IF target <= DaysInMonth(dt.y, dt.m)
             THEN Ret(Date(dt.y, dt.m, target)) ELSE None
        ELSE IF dt.d = target /\ hm < AtTime(sc) THEN Ret(dt)
        ELSE IF dt.m = 12 THEN Ret(Date(dt.y + 1, 1, target))
        ELSE IF target <= DaysInMonth(dt.y, dt.m + 1)
        THEN Ret(Date(dt.y, dt.m + 1, target))
        ELSE Ret(Date(dt.y, dt.m + 1, Min(target, DaysInMonth(dt.y, dt.m + 1))))

(***************************************************************************)
(* get_next_scheduled_time applied to drawn schedules, dates and times     *)
(***************************************************************************)
NextTimeDates ==
    {Date(2024, 1, 15), Date(2024, 1, 31), Date(2024, 2, 15), Date(2024, 2, 29),
     Date(2023, 2, 28), Date(2024, 4, 30), Date(2024, 12, 15), Date(2024, 12, 31)}

NextTimeInit ==
    /\ schedule_config \in [enabled : BOOLEAN, day_of_month : {1, 15, 29, 30, 31},
                            hour : {9}, minute : {0, 30}]
    /\ today \in NextTimeDates
    /\ clock \in {8 * 60, 9 * 60 + 15, 10 * 60}
    /\ sched_result = NoResult
    /\ running = FALSE /\ stop_event = FALSE /\ jobs = <<>> /\ threads = <<>>
    /\ has_recipients = FALSE /\ ui_pending = FALSE /\ scheduled_sends = <<>>
    /\ config_file = NoConfig /\ file_mtime = 0 /\ cm_config = <<>>
    /\ cm_last_modified = NoTime /\ win_config = NoConfig /\ win_shared = FALSE
    /\ pass_log = <<>>
    /\ InitCodecIdle /\ InitAggIdle
    /\ InitEntityIdle /\ InitQueryIdle /\ InitServiceIdle

\* scheduler.get_next_scheduled_time()
GetNextScheduledTime ==
    /\ sched_result = NoResult
    /\ sched_result' = [op  |-> "get_next_scheduled_time",
                        ret |-> get_next_scheduled_time(schedule_config, today, clock)]
    /\ UNCHANGED <<running, stop_event, schedule_config, jobs, threads, has_recipients,
                   clock, ui_pending, scheduled_sends, entity_vars, query_vars,
                   service_vars, config_vars, codec_vars, agg_vars>>

NextTimeNext == GetNextScheduledTime

SpecNextTime == NextTimeInit /\ [][NextTimeNext]_vars

\* The target day of the schedule in the month m of the year y, clamped to the
\* month's last day
ClampedDay(sc, y, m) == Min(sc.day_of_month, DaysInMonth(y, m))

\* The earliest date from dt on whose day is the clamped target day, dt itself
\* counting only before the target time
EarliestScheduledDate(sc, dt, hm) ==
    LET ny == IF dt.m = 12 THEN dt.y + 1 ELSE dt.y
        nm == IF dt.m = 12 THEN 1 ELSE dt.m + 1
    IN  IF dt.d < ClampedDay(sc, dt.y, dt.m)
        THEN Date(dt.y, dt.m, ClampedDay(sc, dt.y, dt.m))
        ELSE IF dt.d = ClampedDay(sc, dt.y, dt.m) /\ hm < AtTime(sc) THEN dt
        ELSE Date(ny, nm, ClampedDay(sc, ny, nm))

\* C17: get_next_scheduled_time returns none when scheduling is disabled and
\* otherwise the earliest date from today on whose day of month is the target
\* day clamped to the month's last day (today only before the target time), at
\* the target hour and minute.
C17_NextIsEarliestClampedDay ==
    sched_result.op = "get_next_scheduled_time" =>
        sched_result.ret =
            IF ~schedule_config.enabled THEN None
            ELSE <<[date |-> EarliestScheduledDate(schedule_config, today, clock),
                    hm   |-> AtTime(schedule_config)]>>

(***************************************************************************)
(* The scheduler proper.  The operators thread the scheduler's state as a  *)
(* record x with fields running, stop_event, schedule_config, jobs and     *)
(* threads, the configuration state c and the controller state s.          *)
(* A thread is [pc, job]: pc is "sleeping" (in time.sleep, or about to     *)
(* enter the loop), "sending" (inside the job function, in the SMTP        *)
(* dialogue of the report) or "dead"; job is the job it is running.        *)
(* _scheduler_thread is the last thread of the list.                       *)
(* A job of the schedule module is [id, at, next_run]; run_pending runs    *)
(* the jobs whose next_run has come, and a job is given its next run       *)
(* after its function has returned.                                        *)
(***************************************************************************)
JoinTimeoutSeconds == 5

\* The day after d
NextDate(d) ==
    IF d.d < DaysInMonth(d.y, d.m) THEN Date(d.y, d.m, d.d + 1)
    ELSE IF d.m < 12 THEN Date(d.y, d.m + 1, 1)
    ELSE Date(d.y + 1, 1, 1)

\* datetime comparison a <= b
DateTimeLE(a, b) ==
    \/ a.date # b.date /\ DateLE(a.date, b.date)
    \/ a.date = b.date /\ a.hm <= b.hm

\* schedule.every().day.at(...): the next time of day at after the datetime t
NextRun(t, at) ==
    IF t.hm < at THEN [date |-> t.date, hm |-> at]
    ELSE [date |-> NextDate(t.date), hm |-> at]

NewThread == [pc |-> "sleeping", job |-> 0]

\* EmailScheduler._load_schedule_config: [c, schedule_config]
load_schedule_config(c) ==
    Bind(get_config(c),
         LAMBDA c1 : [c |-> c1, schedule_config |-> c1.cm[1].schedule])

\* EmailScheduler.start_scheduler at the datetime t: [x, ret]
start_scheduler(x, t) ==
    IF x.running THEN [x |-> x, ret |-> TRUE]
    ELSE IF ~x.schedule_config.enabled THEN [x |-> x, ret |-> FALSE]
    ELSE [x |-> [x EXCEPT
                    !.jobs = <<[id      |-> Len(x.threads) + 1,
                                at       |-> AtTime(x.schedule_config),
                                next_run |-> NextRun(t, AtTime(x.schedule_config))]>>,
                    !.stop_event = FALSE,
                    !.threads = Append(x.threads, NewThread),
                    !.running = TRUE],
          ret |-> TRUE]

\* The join of stop_scheduler: [threads, waited].  wake_in is the number of
\* seconds after which the thread would next look at the stop event.  A thread
\* that does so within limit seconds sees the event set and ends, and join
\* returns then; otherwise join gives up after limit seconds.
JoinThread(ths, wake_in, limit) ==
    LET n == Len(ths)
    IN  IF n = 0 \/ ths[n].pc = "dead" THEN [threads |-> ths, waited |-> 0]
        ELSE IF ths[n].pc = "sleeping" /\ wake_in <= limit
        THEN [threads |-> [ths EXCEPT ![n].pc = "dead"], waited |-> wake_in]
        ELSE [threads |-> ths, waited |-> limit]

\* A stop that joins the thread with no timeout: it returns when the thread has
\* ended.
stop_scheduler_unbounded(x, wake_in) ==
    IF ~x.running THEN [x |-> x, ret |-> TRUE, waited |-> 0]
    ELSE Bind(JoinThread(x.threads, wake_in, wake_in),
              LAMBDA j : [x |-> [x EXCEPT !.stop_event = TRUE, !.running = FALSE,
                                          !.jobs = <<>>, !.threads = j.threads],
                          ret |-> TRUE, waited |-> j.waited])

\* EmailScheduler.stop_scheduler: [x, ret, waited]
stop_scheduler(x, wake_in) ==
    IF ~x.running THEN [x |-> x, ret |-> TRUE, waited |-> 0]
    ELSE Bind(JoinThread(x.threads, wake_in, JoinTimeoutSeconds),
              LAMBDA j : [x |-> [x EXCEPT !.stop_event = TRUE, !.running = FALSE,
                                          !.jobs = <<>>, !.threads = j.threads],
                          ret |-> TRUE, waited |-> j.waited])

\* max(lo, min(hi, v))
Clamp(lo, hi, v) == IF v < lo THEN lo ELSE IF v > hi THEN hi ELSE v

\* EmailScheduler.update_schedule_config up to and including its
\* stop_scheduler call: [x, c, ret, restart].  When save_config raises, the
\* change stays in the manager's object and False is returned.
update_schedule_config(x, c, kw, save_ok, wake_in) ==
    LET New(doc) == [doc EXCEPT !.schedule =
                        [enabled      |-> kw.enabled,
                         day_of_month |-> Clamp(1, 31, kw.day_of_month),
                         hour         |-> Clamp(0, 23, kw.hour),
                         minute       |-> Clamp(0, 59, kw.minute)]]
        Stop(l) ==
            Bind(stop_scheduler([x EXCEPT !.schedule_config = l.schedule_config],
                                wake_in),
                 LAMBDA o : [x |-> o.x, c |-> l.c, ret |-> TRUE, restart |-> x.running])
        Save(c2) ==
            IF ~save_ok THEN [x |-> x, c |-> c2, ret |-> FALSE, restart |-> FALSE]
            ELSE Bind(load_schedule_config(save_config(c2)), Stop)
    IN  Bind(Bind(get_config(c), LAMBDA c1 : SetCm(c1, New(c1.cm[1]))), Save)

\* EmailScheduler._was_report_sent_this_month on the date dt: [c, ret]
was_report_sent_this_month(c, dt) ==
    Bind(get_config(c),
         LAMBDA c1 : [c |-> c1,
                      ret |-> /\ c1.cm[1].last_monthly_report_sent # <<>>
                              /\ MonthKey(c1.cm[1].last_monthly_report_sent[1])
                                     = MonthKey(dt)])

\* EmailScheduler._record_report_sent on the date dt; an exception of
\* save_config is logged, the change staying in the manager's object
record_report_sent(c, dt, save_ok) ==
    LET Set(c1) == SetCm(c1, [c1.cm[1] EXCEPT !.last_monthly_report_sent = <<dt>>])
    IN  Bind(Bind(get_config(c), Set),
             LAMBDA c2 : IF save_ok THEN save_config(c2) ELSE c2)

\* The report of a period: [c, s, attempted, start_date, end_date, success].
\* The expenses are read through the controller; with no recipients the call
\* returns before email_service.send_summary_email; smtp_ok is what that call
\* answers.
SendReport(c, s, start_date, end_date, recipients, load_ok, smtp_ok) ==
    [c |-> c, s |-> get_expenses(s, TRUE, load_ok).s,
     attempted |-> recipients, start_date |-> start_date, end_date |-> end_date,
     success |-> recipients /\ smtp_ok]

\* A monthly report that also records its date.
send_monthly_report_recording(c, s, dt, recipients, load_ok, smtp_ok) ==
    SendReport(record_report_sent(c, dt, TRUE), s,
               Date(PreviousMonth(dt)[1], PreviousMonth(dt)[2], 1),
               Date(PreviousMonth(dt)[1], PreviousMonth(dt)[2],
                    DaysInMonth(PreviousMonth(dt)[1], PreviousMonth(dt)[2])),
               recipients, load_ok, smtp_ok)

\* EmailScheduler.send_monthly_report on the date dt: the previous calendar
\* month, from its first to its last day
send_monthly_report(c, s, dt, recipients, load_ok, smtp_ok) ==
    SendReport(c, s,
               Date(PreviousMonth(dt)[1], PreviousMonth(dt)[2], 1),
               Date(PreviousMonth(dt)[1], PreviousMonth(dt)[2],
                    DaysInMonth(PreviousMonth(dt)[1], PreviousMonth(dt)[2])),
               recipients, load_ok, smtp_ok)

\* EmailScheduler.send_custom_report
send_custom_report(c, s, start_date, end_date, recipients, load_ok, smtp_ok) ==
    SendReport(c, s, start_date, end_date, recipients, load_ok, smtp_ok)

\* A check that looks at the day of the month only.
check_and_send_monthly_report_daily(c, s, sc, dt, recipients, load_ok) ==
    IF dt.d # sc.day_of_month
    THEN [c |-> c, s |-> s, triggered |-> FALSE, sending |-> FALSE,
          start_date |-> NotADate, end_date |-> NotADate]
    ELSE Bind(send_monthly_report(c, s, dt, recipients, load_ok, TRUE),
              LAMBDA o : [c |-> o.c, s |-> o.s, triggered |-> TRUE,
                          sending |-> o.attempted,
                          start_date |-> o.start_date, end_date |-> o.end_date])

\* EmailScheduler._check_and_send_monthly_report on the date dt, up to the SMTP
\* dialogue: [c, s, triggered, sending, start_date, end_date]; triggered tells
\* that send_monthly_report was called, sending that the dialogue has begun
check_and_send_monthly_report(c, s, sc, dt, recipients, load_ok) ==
    LET Skip(c1) == [c |-> c1, s |-> s, triggered |-> FALSE, sending |-> FALSE,
                     start_date |-> NotADate, end_date |-> NotADate]
        Go(w) ==
            IF w.ret THEN Skip(w.c)
            ELSE Bind(send_monthly_report(w.c, s, dt, recipients, load_ok, TRUE),
                      LAMBDA o : [c |-> o.c, s |-> o.s, triggered |-> TRUE,
                                  sending |-> o.attempted,
                                  start_date |-> o.start_date,
                                  end_date |-> o.end_date])
    IN  IF dt.d # sc.day_of_month THEN Skip(c)
        ELSE Bind(was_report_sent_this_month(c, dt), Go)

\* Job.run after the job function has returned: the job, if it is still in the
\* list, is given its next run
Reschedule(js, id, t) ==
    [k \in 1..Len(js) |->
        IF js[k].id = id THEN [js[k] EXCEPT !.next_run = NextRun(t, js[k].at)]
        ELSE js[k]]

\* One pass of the loop of EmailScheduler._run_scheduler by thread i at the
\* datetime t, from the test of the stop event to time.sleep or, when a report
\* is being sent, to the SMTP dialogue: [x, c, s, exited, check]; check is
\* <<>> or <<what the job function found>>
run_scheduler(x, c, s, i, t, recipients, load_ok) ==
    LET due == {k \in 1..Len(x.jobs) : DateTimeLE(x.jobs[k].next_run, t)}
        Ran(k, o) ==
            [x |-> IF o.sending
                   THEN [x EXCEPT !.threads[i] = [pc |-> "sending", job |-> x.jobs[k].id]]
                   ELSE [x EXCEPT !.jobs = Reschedule(x.jobs, x.jobs[k].id, t)],
             c |-> o.c, s |-> o.s, exited |-> FALSE, check |-> <<o>>]
        Run(k) ==
            Bind(check_and_send_monthly_report(c, s, x.schedule_config, t.date,
                                               recipients, load_ok),
                 LAMBDA o : Ran(k, o))
    IN  IF x.stop_event
        THEN [x |-> [x EXCEPT !.threads[i].pc = "dead"], c |-> c, s |-> s,
              exited |-> TRUE, check |-> <<>>]
        ELSE IF due = {}
        THEN [x |-> x, c |-> c, s |-> s, exited |-> FALSE, check |-> <<>>]
        ELSE Run(CHOOSE k \in due : TRUE)

\* The rest of the job function and of Job.run once send_summary_email has
\* answered success, at the datetime t: [x, c]
finish_scheduled_send(x, c, i, t, success, save_ok) ==
    [x |-> [x EXCEPT !.threads[i] = NewThread,
                     !.jobs = Reschedule(x.jobs, x.threads[i].job, t)],
     c |-> IF success THEN record_report_sent(c, t.date, save_ok) ELSE c]

(***************************************************************************)
(* The scheduler as a state machine: the UI thread calls start, stop,      *)
(* update_schedule_config and the manual sends; every scheduler thread     *)
(* takes its loop passes; the clock moves through the moments of a         *)
(* calendar.                                                               *)
(***************************************************************************)
MaxThreads        == 2
MaxScheduledSends == 2
MaxSchedWrites    == 1

\* The moments at which something happens, in order
Moments ==
    <<[date |-> Date(2024, 11, 10), hm |-> 8 * 60],
      [date |-> Date(2024, 11, 10), hm |-> 10 * 60],
      [date |-> Date(2024, 11, 11), hm |-> 10 * 60]>>

\* Seconds until a sleeping thread next wakes, at a call of stop_scheduler
WakeIns == {2, 30}

ScheduleInputs == [enabled : BOOLEAN, day_of_month : {10}, hour : {9}, minute : {0}]

\* datetime.now()
T == [date |-> today, hm |-> clock]

\* The scheduler's state as the operators take it
X == [running |-> running, stop_event |-> stop_event,
      schedule_config |-> schedule_config, jobs |-> jobs, threads |-> threads]

CommitSched(x) ==
    /\ running' = x.running
    /\ stop_event' = x.stop_event
    /\ schedule_config' = x.schedule_config
    /\ jobs' = x.jobs
    /\ threads' = x.threads

\* last_monthly_report_sent as config_manager.get_config() gives it
LastSent(c) == get_config(c).cm[1].last_monthly_report_sent

\* scheduler.start_scheduler()
StartScheduler ==
    \E o \in {start_scheduler(X, T)} :
        /\ ~ui_pending
        /\ running \/ ~schedule_config.enabled \/ Len(threads) < MaxThreads
        /\ CommitSched(o.x)
        /\ sched_result' = [op |-> "start_scheduler", ret |-> o.ret]
        /\ UNCHANGED <<has_recipients, clock, ui_pending, scheduled_sends, entity_vars,
                       query_vars, service_vars, config_vars, codec_vars, agg_vars>>

\* scheduler.stop_scheduler()
StopScheduler ==
    \E wake_in \in WakeIns :
        \E o \in {stop_scheduler(X, wake_in)} :
            /\ ~ui_pending
            /\ CommitSched(o.x)
            /\ sched_result' = [op |-> "stop_scheduler", ret |-> o.ret,
                                was_running |-> running, waited |-> o.waited,
                                changed |-> o.x # X]
            /\ UNCHANGED <<has_recipients, clock, ui_pending, scheduled_sends,
                           entity_vars, query_vars, service_vars, config_vars,
                           codec_vars, agg_vars>>

\* scheduler.update_schedule_config(...), up to the pause before its
\* start_scheduler call
UpdateScheduleConfig ==
    \E kw \in ScheduleInputs, save_ok \in BOOLEAN, wake_in \in WakeIns :
        \E o \in {update_schedule_config(X, Cfg, kw, save_ok, wake_in)} :
            /\ ~ui_pending
            /\ save_ok => file_mtime < MaxSchedWrites
            /\ running => Len(threads) < MaxThreads
            /\ CommitSched(o.x)
            /\ CommitConfig(o.c)
            /\ ui_pending' = o.restart
            /\ sched_result' = [op |-> "update_schedule_config", ret |-> o.ret]
            /\ UNCHANGED <<has_recipients, clock, scheduled_sends, today, pass_log,
                           entity_vars, query_vars, service_vars, codec_vars, agg_vars>>

\* The start_scheduler call that ends update_schedule_config
RestartAfterUpdate ==
    \E o \in {start_scheduler(X, T)} :
        /\ ui_pending
        /\ CommitSched(o.x)
        /\ ui_pending' = FALSE
        /\ sched_result' = [op |-> "restart", ret |-> o.ret]
        /\ UNCHANGED <<has_recipients, clock, scheduled_sends, entity_vars, query_vars,
                       service_vars, config_vars, codec_vars, agg_vars>>

\* What a manual send did
ManualResult(op, o) ==
    [op |-> op, attempted |-> o.attempted, success |-> o.success,
     start_date |-> o.start_date, end_date |-> o.end_date,
     last_before |-> LastSent(Cfg), last_after |-> LastSent(o.c),
     file_changed |-> o.c.file # config_file]

\* A manual send leaves the scheduler as it is
ManualFrame(o) ==
    /\ CommitConfig(o.c)
    /\ Commit(o.s)
    /\ UNCHANGED <<running, stop_event, schedule_config, jobs, threads, has_recipients,
                   clock, ui_pending, scheduled_sends, today, pass_log, result, hist,
                   entity_vars, query_vars, codec_vars, agg_vars>>

\* MainWindow.send_monthly_report
ManualSendMonthlyReport ==
    \E load_ok \in LoadOutcomes(S), smtp_ok \in BOOLEAN :
        \E o \in {send_monthly_report(Cfg, S, today, has_recipients, load_ok, smtp_ok)} :
            /\ ~ui_pending
            /\ sched_result' = ManualResult("send_monthly_report", o)
            /\ ManualFrame(o)

\* MainWindow.send_custom_report, the dates taken from the two date fields
SendCustomReport ==
    \E load_ok \in LoadOutcomes(S), smtp_ok \in BOOLEAN :
        \E o \in {send_custom_report(Cfg, S, Date(2024, 11, 1), D1, has_recipients,
                                     load_ok, smtp_ok)} :
            /\ ~ui_pending
            /\ sched_result' = ManualResult("send_custom_report", o)
            /\ ManualFrame(o)

\* MainWindow.send_test_email: the current month up to today
SendTestEmail ==
    \E load_ok \in LoadOutcomes(S), smtp_ok \in BOOLEAN :
        \E o \in {send_custom_report(Cfg, S, Date(today.y, today.m, 1), today,
                                     has_recipients, load_ok, smtp_ok)} :
            /\ ~ui_pending
            /\ sched_result' = ManualResult("send_test_email", o)
            /\ ManualFrame(o)

\* A loop pass of the scheduler thread i
RunScheduler ==
    \E i \in 1..Len(threads), load_ok \in LoadOutcomes(S) :
        \E o \in {run_scheduler(X, Cfg, S, i, T, has_recipients, load_ok)} :
            /\ threads[i].pc = "sleeping"
            /\ CommitSched(o.x)
            /\ CommitConfig(o.c)
            /\ Commit(o.s)
            /\ sched_result' =
                  [op |-> "run_scheduler", thread |-> i,
                   stopped |-> i < Len(threads) \/ ~running,
                   exited |-> o.exited,
                   checked |-> o.check # <<>>,
                   triggered |-> o.check # <<>> /\ o.check[1].triggered,
                   period |-> IF o.check # <<>> /\ o.check[1].triggered
                              THEN <<o.check[1].start_date, o.check[1].end_date>>
                              ELSE <<>>,
                   today |-> today, target |-> schedule_config.day_of_month,
                   last_before |-> LastSent(Cfg), last_after |-> LastSent(o.c)]
            /\ UNCHANGED <<has_recipients, clock, ui_pending, scheduled_sends, today,
                           pass_log, result, hist, entity_vars, query_vars,
                           codec_vars, agg_vars>>

\* send_summary_email answers the scheduler thread i, which then ends its job
FinishScheduledSend ==
    \E i \in 1..Len(threads), success \in BOOLEAN, save_ok \in BOOLEAN :
        \E o \in {finish_scheduled_send(X, Cfg, i, T, success, save_ok)} :
            /\ threads[i].pc = "sending"
            /\ (success /\ save_ok) => file_mtime < MaxSchedWrites
            /\ success => Len(scheduled_sends) < MaxScheduledSends
            /\ CommitSched(o.x)
            /\ CommitConfig(o.c)
            /\ scheduled_sends' = IF success
                                  THEN Append(scheduled_sends, MonthKey(today))
                                  ELSE scheduled_sends
            /\ sched_result' =
                  [op |-> "finish_scheduled_send", thread |-> i, success |-> success,
                   saved |-> success /\ save_ok, today |-> today,
                   last_before |-> LastSent(Cfg), last_after |-> LastSent(o.c)]
            /\ UNCHANGED <<has_recipients, clock, ui_pending, today, pass_log,
                           entity_vars, query_vars, service_vars, codec_vars, agg_vars>>

\* The next moment comes
AdvanceClock ==
    \E k \in 1..(Len(Moments) - 1) :
        /\ T = Moments[k]
        /\ today' = Moments[k + 1].date
        /\ clock' = Moments[k + 1].hm
        /\ UNCHANGED <<running, stop_event, schedule_config, jobs, threads,
                       has_recipients, ui_pending, scheduled_sends, sched_result,
                       config_file, file_mtime, cm_config, cm_last_modified, win_config,
                       win_shared, pass_log, entity_vars, query_vars, service_vars,
                       codec_vars, agg_vars>>

\* The state after EmailScheduler.__init__
SchedInit ==
    /\ today = Moments[1].date
    /\ clock = Moments[1].hm
    /\ \E enabled \in BOOLEAN,
          last \in {<<>>, <<Date(2024, 10, 10)>>, <<Date(2024, 11, 3)>>} :
          config_file = [recurring |-> <<>>, smtp_server |-> "smtp.a",
                         last_monthly_report_sent |-> last,
                         schedule |-> [enabled |-> enabled, day_of_month |-> 10,
                                       hour |-> 9, minute |-> 0]]
    /\ file_mtime = 0
    /\ cm_config = <<config_file>>
    /\ cm_last_modified = 0
    /\ win_config = config_file
    /\ win_shared = TRUE
    /\ pass_log = <<>>
    /\ running = FALSE
    /\ stop_event = FALSE
    /\ schedule_config = config_file.schedule
    /\ jobs = <<>>
    /\ threads = <<>>
    /\ has_recipients \in BOOLEAN
    /\ ui_pending = FALSE
    /\ scheduled_sends = <<>>
    /\ sched_result = NoResult
    /\ InitCodecIdle /\ InitAggIdle
    /\ InitEntityIdle /\ InitQueryIdle /\ InitServiceIdle

SchedNext ==
    \/ StartScheduler
    \/ StopScheduler
    \/ UpdateScheduleConfig
    \/ RestartAfterUpdate
    \/ ManualSendMonthlyReport
    \/ SendCustomReport
    \/ SendTestEmail
    \/ RunScheduler
    \/ FinishScheduledSend
    \/ AdvanceClock

SpecScheduler == SchedInit /\ [][SchedNext]_vars

\* C14: the scheduler sends at most one scheduled report per calendar month,
\* whatever the interleaving of its threads' loop passes with start, stop and
\* update_schedule_config and whether or not the recording succeeds.
C14_OneScheduledSendPerMonth ==
    \A j, k \in 1..Len(scheduled_sends) :
        scheduled_sends[j] = scheduled_sends[k] => j = k

\* The operations a user sends a report with
ManualOps == {"send_monthly_report", "send_custom_report", "send_test_email"}

\* C15: on a scheduled check a send is triggered exactly when today's day of
\* the month is the target day and last_monthly_report_sent is absent or not of
\* the current month; the send covers the previous calendar month from its
\* first to its last day; last_monthly_report_sent becomes today's date when
\* the send has succeeded and stays as it was when the send failed or the
\* check did not trigger.
C15_ScheduledCheck ==
    /\ (sched_result.op = "run_scheduler" /\ sched_result.checked) =>
          /\ sched_result.triggered <=>
                /\ sched_result.today.d = sched_result.target
                /\ \/ sched_result.last_before = <<>>
                   \/ MonthKey(sched_result.last_before[1]) # MonthKey(sched_result.today)
          /\ sched_result.triggered =>
                /\ sched_result.period[1].d = 1
                /\ MonthKey(sched_result.period[1]) = MonthKey(sched_result.period[2])
                /\ NextDate(sched_result.period[2])
                       = Date(sched_result.today.y, sched_result.today.m, 1)
          /\ sched_result.last_after = sched_result.last_before
    /\ sched_result.op = "finish_scheduled_send" =>
          sched_result.last_after = IF sched_result.success
                                    THEN <<sched_result.today>>
                                    ELSE sched_result.last_before

C15_RecordedInANewMonth ==
    /\ sched_result.op = "finish_scheduled_send"
    /\ sched_result.success
    /\ sched_result.last_before # <<>>
    /\ sched_result.last_after = <<today>>
    /\ MonthKey(sched_result.last_before[1]) # MonthKey(today)

\* C16: a manual send (the monthly report asked for by the user, a custom
\* report, the test send) goes to the mail service whenever recipients are
\* configured, whatever last_monthly_report_sent holds and whether or not the
\* scheduler is enabled or running, and it leaves last_monthly_report_sent and
\* the configuration file as they were.
C16_ManualSendBypassesGuard ==
    sched_result.op \in ManualOps =>
        /\ sched_result.attempted = has_recipients
        /\ sched_result.last_after = sched_result.last_before
        /\ ~sched_result.file_changed

C16_SentAgainThisMonth ==
    /\ sched_result.op = "send_monthly_report"
    /\ sched_result.attempted
    /\ sched_result.success
    /\ sched_result.last_before # <<>>
    /\ MonthKey(sched_result.last_before[1]) = MonthKey(today)
    /\ ~running
    /\ ~schedule_config.enabled

\* C18: stop_scheduler on a scheduler that is not running returns True and
\* changes nothing; on a running scheduler it returns True after waiting for
\* the thread for at most the join timeout, with the running flag false.
C18_StopIsSafeAndBounded ==
    sched_result.op = "stop_scheduler" =>
        /\ sched_result.ret
        /\ ~running
        /\ sched_result.waited <= JoinTimeoutSeconds
        /\ ~sched_result.was_running =>
              /\ ~sched_result.changed
              /\ sched_result.waited = 0

C18_JoinTimedOut ==
    /\ sched_result.op = "stop_scheduler"
    /\ sched_result.was_running
    /\ sched_result.waited = JoinTimeoutSeconds
    /\ threads[Len(threads)].pc = "sleeping"

\* C19: a scheduler thread that wakes up after stop_scheduler was called on
\* its scheduler sees the cancellation and ends, also when start_scheduler or
\* update_schedule_config has restarted the scheduler in between.
C19_StoppedThreadEndsAtWakeUp ==
    (sched_result.op = "run_scheduler" /\ sched_result.stopped) => sched_result.exited

(***************************************************************************)
(* The recurring expense processor at the end of a month: rules whose day  *)
(* may lie past the month's last day.                                      *)
(***************************************************************************)
\* Last days of months of 30, 29, 28 and 31 days
MonthEnds ==
    {Date(2024, 11, 30), Date(2024, 2, 29), Date(2023, 2, 28), Date(2024, 12, 31)}

LateDays == {28, 29, 30, 31}

\* The state after MainWindow.__init__ on the last day of a month, the
\* configuration holding one rule
MonthEndInit ==
    /\ today \in MonthEnds
    /\ \E day \in LateDays, enabled \in BOOLEAN,
          last \in {<<2023, 1>>, MonthKey(today)} :
          config_file =
              [NoConfig EXCEPT !.recurring =
                  <<[NewRule(0 - 40, "Rent", "Rent", day, enabled)
                        EXCEPT !.last_processed = last]>>]
    /\ file_mtime = 0
    /\ cm_config = <<config_file>>
    /\ cm_last_modified = 0
    /\ win_config = config_file
    /\ win_shared = TRUE
    /\ pass_log = <<>>
    /\ data = [mock |-> <<>>, sheets |-> <<>>]
    /\ use_mock_data = FALSE
    /\ budgets = <<>>
    /\ expense_cache = <<>>
    /\ cache_last_updated = NoTime
    /\ now = 0
    /\ result = NoResult
    /\ hist = NoHistory
    /\ InitEntityIdle /\ InitExtIdle /\ InitQueryIdle

MonthEndNext ==
    \/ Restart
    \/ ProcessAllRecurringExpenses

SpecMonthEnd == MonthEndInit /\ [][MonthEndNext]_vars

\* The store holds the transaction of the rule for the month of dt, dated on
\* the rule's day or on the month's last day when the month is shorter
HasClampedTransaction(rule, dt) ==
    \E j \in 1..Len(data.sheets) :
        /\ data.sheets[j].Date
               = Date(dt.y, dt.m, Min(rule.day_of_month, DaysInMonth(dt.y, dt.m)))
        /\ data.sheets[j].Amount = rule.amount
        /\ data.sheets[j].Category = rule.category
        /\ data.sheets[j].Description = AutoDescription(rule.description)

\* C26: a pass on the last day of a month, meeting an enabled rule whose day
\* lies past that last day and which was not processed this month, the data
\* service accepting the write, leaves a transaction of the rule dated on the
\* month's last day, with the rule's amount and category and the description
\* marked as automatic.
C26_LateRuleMadeOnLastDay ==
    \A i \in 1..Len(pass_log) :
        ( /\ pass_log[i].rule.enabled
          /\ pass_log[i].rule.day_of_month
                 > DaysInMonth(pass_log[i].on.y, pass_log[i].on.m)
          /\ pass_log[i].rule.last_processed # pass_log[i].month
          /\ pass_log[i].on.d = DaysInMonth(pass_log[i].on.y, pass_log[i].on.m)
          /\ pass_log[i].write_ok )
        => HasClampedTransaction(pass_log[i].rule, pass_log[i].on)

\* The scheduler loop threads that have not ended
AliveThreads == {i \in 1..Len(threads) : threads[i].pc # "dead"}

\* C27: at every moment at most one scheduler loop thread is alive, after any
\* sequence of start_scheduler, stop_scheduler and update_schedule_config.
C27_AtMostOneLoopThread == Cardinality(AliveThreads) <= 1

(***************************************************************************)
(* The two writers of config.yaml side by side: the scheduler thread,      *)
(* which records the date of a report it has sent, and the UI thread,      *)
(* which runs the recurring expense processor.                             *)
(***************************************************************************)
WritersInit ==
    /\ today = Moments[1].date
    /\ clock = Moments[1].hm
    /\ config_file = [recurring |-> <<RentRule>>, smtp_server |-> "smtp.a",
                      last_monthly_report_sent |-> <<>>,
                      schedule |-> [enabled |-> TRUE, day_of_month |-> 10,
                                    hour |-> 9, minute |-> 0]]
    /\ file_mtime = 0
    /\ cm_config = <<config_file>>
    /\ cm_last_modified = 0
    /\ win_config = config_file
    /\ win_shared = TRUE
    /\ pass_log = <<>>
    /\ running = FALSE
    /\ stop_event = FALSE
    /\ schedule_config = config_file.schedule
    /\ jobs = <<>>
    /\ threads = <<>>
    /\ has_recipients = TRUE
    /\ ui_pending = FALSE
    /\ scheduled_sends = <<>>
    /\ sched_result = NoResult
    /\ data = [mock |-> <<>>, sheets |-> <<>>]
    /\ use_mock_data = FALSE
    /\ budgets = <<>>
    /\ expense_cache = <<>>
    /\ cache_last_updated = NoTime
    /\ now = 0
    /\ result = NoResult
    /\ hist = NoHistory
    /\ InitCodecIdle /\ InitAggIdle
    /\ InitEntityIdle /\ InitQueryIdle

WritersNext ==
    \/ StartScheduler
    \/ RunScheduler
    \/ FinishScheduledSend
    \/ ProcessAllRecurringExpenses
    \/ AdvanceClock

SpecWriters == WritersInit /\ [][WritersNext]_vars

\* C28: once the scheduler thread has recorded and saved the date of its
\* report and a pass of the UI thread has made a rule's transaction in the same
\* month, in either order, config.yaml holds both the report date and the
\* rule's last_processed.
C28_BothUpdatesPersisted ==
    \A i \in 1..Len(pass_log) :
        ( /\ sched_result.op = "finish_scheduled_send"
          /\ sched_result.saved
          /\ MaterializedInPass(i)
          /\ pass_log[i].month = MonthKey(sched_result.today) )
        => /\ config_file.last_monthly_report_sent = <<sched_result.today>>
           /\ LastProcessed(config_file, i) = pass_log[i].month

(***************************************************************************)
(* BudgetManager.get_budget_status_for_month (models/budget.py).  A budget *)
(* of the manager's list is identified by its position in the list.        *)
(***************************************************************************)
\* BudgetManager.get_active_budgets: the positions of the budgets active on dt,
\* in list order
get_active_budgets(bs, dt) ==
    SelectSeq([i \in 1..Len(bs) |-> i], LAMBDA i : is_active_for_date(bs[i], dt))

\* Budget.get_remaining_budget
get_remaining_budget(b, y, m, expenses) ==
    b.monthly_limit - get_spending_for_month(b, y, m, expenses)

\* Budget.is_over_budget
is_over_budget(b, y, m, expenses) == get_remaining_budget(b, y, m, expenses) < 0

\* Budget.get_budget_percentage_used, as the fraction spent * 100 / limit
get_budget_percentage_used(b, y, m, expenses) ==
    IF b.monthly_limit > 0
    THEN [num |-> get_spending_for_month(b, y, m, expenses) * 100,
          den |-> b.monthly_limit]
    ELSE [num |-> 0, den |-> 1]

\* The record the loop stores for the budget at position i
StatusRecord(bs, i, y, m, expenses) ==
    [budget_limit    |-> bs[i].monthly_limit,
     spent           |-> get_spending_for_month(bs[i], y, m, expenses),
     remaining       |-> get_remaining_budget(bs[i], y, m, expenses),
     percentage_used |-> get_budget_percentage_used(bs[i], y, m, expenses),
     over_budget     |-> is_over_budget(bs[i], y, m, expenses),
     budget_id       |-> i]

\* BudgetManager.get_budget_status_for_month: the dict status, filled by
\* status[budget.category] = {...} for the active budgets in list order, so
\* that a later budget of a category replaces an earlier one
get_budget_status_for_month(bs, y, m, expenses) ==
    LET active == get_active_budgets(bs, Date(y, m, 1))
        Keys   == {bs[active[k]].category : k \in 1..Len(active)}
        Last(c) == CHOOSE k \in 1..Len(active) :
                      /\ bs[active[k]].category = c
                      /\ \A j \in 1..Len(active) : bs[active[j]].category = c => j <= k
    IN  [c \in Keys |-> StatusRecord(bs, active[Last(c)], y, m, expenses)]

MaxBudgets == 2

StatusBudgets ==
    {NewBudget("Food", 200, Date(2024, 1, 1)), NewBudget("Food", 60, Date(2024, 1, 1)),
     NewBudget("Rent", 30, Date(2024, 1, 1)), NewBudget("Rent", 50, Date(2024, 12, 1))}

StatusExpenses ==
    {NewExpense(D1, 0 - 50, "Food", ""), NewExpense(D1, 0 - 20, "Rent", ""),
     NewExpense(D1, 70, "Food", "")}

StatusInit ==
    /\ budgets \in SeqsUpTo(StatusBudgets, MaxBudgets)
    /\ q_expenses \in SeqsUpTo(StatusExpenses, MaxBudgets)
    /\ q_month \in {<<2024, 11>>, <<2024, 12>>}
    /\ q_budget = <<>>
    /\ q_spending = <<>>
    /\ data = [mock |-> <<>>, sheets |-> <<>>]
    /\ use_mock_data = TRUE
    /\ expense_cache = <<>>
    /\ cache_last_updated = NoTime
    /\ now = 0
    /\ result = NoResult
    /\ hist = NoHistory
    /\ InitEntityIdle /\ InitExtIdle /\ InitConfigIdle

\* budget_manager.get_budget_status_for_month(year, month, expenses)
GetBudgetStatusForMonth ==
    /\ result = NoResult
    /\ result' = [op |-> "get_budget_status_for_month",
                  status |-> get_budget_status_for_month(budgets, q_month[1],
                                                         q_month[2], q_expenses)]
    /\ UNCHANGED <<data, use_mock_data, budgets, expense_cache, cache_last_updated,
                   now, hist, entity_vars, ext_vars, query_vars, config_vars>>

StatusNext == GetBudgetStatusForMonth

SpecStatus == StatusInit /\ [][StatusNext]_vars

\* C24: the status holds one record for every budget active on the 1st of the
\* month, also for two budgets of one category, each with the budget's limit,
\* spent as get_spending_for_month gives it, remaining = limit - spent and
\* over_budget exactly when remaining is negative.
C24_OneRecordPerActiveBudget ==
    result.op = "get_budget_status_for_month" =>
        \A i \in 1..Len(budgets) :
            is_active_for_date(budgets[i], Date(q_month[1], q_month[2], 1)) =>
                \E c \in DOMAIN result.status :
                    /\ result.status[c].budget_id = i
                    /\ result.status[c].budget_limit = budgets[i].monthly_limit
                    /\ result.status[c].spent
                           = get_spending_for_month(budgets[i], q_month[1], q_month[2],
                                                    q_expenses)
                    /\ result.status[c].remaining
                           = result.status[c].budget_limit - result.status[c].spent
                    /\ result.status[c].over_budget <=> result.status[c].remaining < 0

\* C23: for a non-empty transaction list the top category of the summary is a
\* category whose signed total has the greatest absolute value among all
\* categories.
C23_TopCategoryByMagnitude ==
    (result.op = "get_expense_summary" /\ result.all # <<>>) =>
        \A j \in 1..Len(result.all) :
            Abs(CategoryTotal(result.all, result.all[j].category))
                <= Abs(CategoryTotal(result.all, result.ret.top_category))

(***************************************************************************)
(* The cache across an outage of the sheets service: reloads that fail,    *)
(* reads from the cache afterwards, writes and the passing of time.        *)
(* hist keeps whether the cached snapshot comes from a failed reload, and  *)
(* the time of that reload.                                                *)
(***************************************************************************)
NoOutage == [failed |-> FALSE, at |-> NoTime]

OutageInit ==
    /\ use_mock_data = FALSE
    /\ data \in {[mock |-> <<>>, sheets |-> store] : store \in {<<>>, <<Spent80>>}}
    /\ budgets = <<>>
    /\ expense_cache = <<>>
    /\ cache_last_updated = NoTime
    /\ now = 0
    /\ result = NoResult
    /\ hist = NoOutage
    /\ InitEntityIdle /\ InitExtIdle /\ InitQueryIdle /\ InitConfigIdle

\* controller.get_expenses(use_cache) while the service may be down
GetExpensesInOutage ==
    \E use_cache \in BOOLEAN, load_ok \in LoadOutcomes(S) :
        \E o \in {get_expenses(S, use_cache, load_ok)} :
            /\ Commit(o.s)
            /\ result' = [op |-> "get_expenses", use_cache |-> use_cache,
                          calls |-> o.calls, ret |-> o.ret, load_ok |-> load_ok,
                          at |-> now, cache_after |-> o.s.cache,
                          cache_at_after |-> o.s.cache_at,
                          after_failure |-> hist.failed,
                          age |-> IF hist.failed THEN now - hist.at ELSE 0]
            /\ hist' = IF o.calls > 0 THEN [failed |-> ~load_ok, at |-> now] ELSE hist
            /\ UNCHANGED <<entity_vars, ext_vars, query_vars, config_vars>>

\* controller.add_expense(...) while the service may be down; a successful
\* write empties the cache
AddExpenseInOutage ==
    /\ AddExpense(CacheInputs, {"ok"}, MaxStore)
    /\ hist' = IF result'.ok THEN NoOutage ELSE hist

OutageNext ==
    \/ GetExpensesInOutage
    \/ AddExpenseInOutage
    \/ Tick

SpecOutage == OutageInit /\ [][OutageNext]_vars

\* C29: a reload that fails leaves the empty list in the cache with the time of
\* the reload, and every get_expenses(use_cache=True) less than five minutes
\* after it, no write having succeeded in between, returns the empty list
\* without a call of the data service.
C29_FailedReloadIsCached ==
    result.op = "get_expenses" =>
        /\ (result.calls > 0 /\ ~result.load_ok) =>
              /\ result.ret = <<>>
              /\ result.cache_after = <<>>
              /\ result.cache_at_after = result.at
        /\ ( /\ result.use_cache
             /\ result.after_failure
             /\ result.age < CacheDurationMinutes ) =>
              /\ result.calls = 0
              /\ result.ret = <<>>

\* C29 witness: four minutes after the failed reload the service answers again
\* and holds a row, and the cached read still gives the empty list.
C29_EmptyAfterRecovery ==
    /\ result.op = "get_expenses"
    /\ result.use_cache
    /\ result.after_failure
    /\ result.age = CacheDurationMinutes - 1
    /\ result.load_ok
    /\ data.sheets # <<>>
    /\ result.calls = 0
    /\ result.ret = <<>>

(***************************************************************************)
(* The controller on the local store (MockDataService): records are added, *)
(* read back, and the objects read back are handed to update_expense and   *)
(* delete_expense.  hist keeps the records stored by successful adds.      *)
(***************************************************************************)
MaxLocal == 3

PlainFood  == RawRecord(D1, 0 - 40, "Food", "")
PaddedFood == RawRecord(D1, 0 - 40, " Food ", "")
NewRent    == RawRecord(D2, 0 - 10, "Rent", "")

LocalAdds    == {PlainFood, PaddedFood}
LocalUpdates == {NewRent, RawRecord(D1, 0, "Food", "")}

LocalStores == {<<>>, <<PlainFood, PlainFood>>, <<NewRent, PlainFood, PlainFood>>}

LocalInit ==
    /\ use_mock_data = TRUE
    /\ data \in {[mock |-> store, sheets |-> <<>>] : store \in LocalStores}
    /\ budgets = <<>>
    /\ expense_cache = <<>>
    /\ cache_last_updated = NoTime
    /\ now = 0
    /\ result = NoResult
    /\ hist = [added |-> {}]
    /\ InitEntityIdle /\ InitExtIdle /\ InitQueryIdle /\ InitConfigIdle

LocalIo(write_ok) == [check |-> "ok", load_ok |-> TRUE, write_ok |-> write_ok]

\* The object handed to update/delete is the one get_expenses made of a
\* stored record that a successful add stored, the cache being what a reload
\* would give
Fresh == expense_cache = get_expenses_from_service(S, TRUE)

FromAdd(i) == Fresh /\ i <= Len(data.mock) /\ data.mock[i] \in hist.added

LocalResult(op, old, a, write_ok, reached, from_add, o) ==
    [op |-> op, old |-> old, args |-> a, write_ok |-> write_ok,
     reached |-> reached, from_add |-> from_add, ok |-> o.ok,
     before |-> data.mock, after |-> o.s.data.mock]

\* controller.add_expense(date, amount, category, description)
LocalAdd ==
    \E a \in LocalAdds, write_ok \in BOOLEAN :
        \E o \in {add_expense(S, a, LocalIo(write_ok))} :
            /\ Len(data.mock) < MaxLocal
            /\ Commit(o.s)
            /\ result' = LocalResult("add_expense", <<>>, a, write_ok, TRUE, FALSE, o)
            /\ hist' = IF o.ok THEN [added |-> hist.added \cup {a}] ELSE hist
            /\ UNCHANGED <<entity_vars, ext_vars, query_vars, config_vars>>

\* controller.get_expenses(use_cache)
LocalGet ==
    \E use_cache \in BOOLEAN :
        \E o \in {get_expenses(S, use_cache, TRUE)} :
            /\ Commit(o.s)
            /\ result' = [op |-> "get_expenses", ret |-> o.ret]
            /\ UNCHANGED <<hist, entity_vars, ext_vars, query_vars, config_vars>>

\* controller.update_expense(old_expense, ...) with one of the objects
\* get_expenses handed out
LocalUpdate ==
    \E i \in 1..Len(expense_cache), a \in LocalUpdates, write_ok \in BOOLEAN :
        \E o \in {update_expense(S, expense_cache[i], a, LocalIo(write_ok))} :
            /\ Commit(o.s)
            /\ result' = LocalResult("update_expense", to_dict(expense_cache[i]), a,
                             write_ok,
                             ValidateError(NewExpense(a.Date, a.Amount, a.Category,
                                                      a.Description)) = "ok",
                             FromAdd(i), o)
            /\ UNCHANGED <<hist, entity_vars, ext_vars, query_vars, config_vars>>

\* controller.delete_expense(expense) with one of the objects get_expenses
\* handed out
LocalDelete ==
    \E i \in 1..Len(expense_cache), write_ok \in BOOLEAN :
        \E o \in {delete_expense(S, expense_cache[i], LocalIo(write_ok))} :
            /\ Commit(o.s)
            /\ result' = LocalResult("delete_expense", to_dict(expense_cache[i]),
                                     <<>>, write_ok, TRUE, FromAdd(i), o)
            /\ UNCHANGED <<hist, entity_vars, ext_vars, query_vars, config_vars>>

LocalNext ==
    \/ LocalAdd
    \/ LocalGet
    \/ LocalUpdate
    \/ LocalDelete

SpecLocal == LocalInit /\ [][LocalNext]_vars

\* The stored records equal to old on date, amount, category and description
Hits(store, old) == {i \in 1..Len(store) : Matches(store[i], old)}

\* i is the first record of store equal to old
IsFirstHit(store, old, i) ==
    i \in Hits(store, old) /\ \A j \in Hits(store, old) : i <= j

\* C22: an update or delete of the local store that reaches the store and
\* finds records equal to the given one on (date, amount, category,
\* description) replaces or removes the first of them and leaves every other
\* record, equal ones included, as it was and where it was; when none is equal
\* it returns false and the store is unchanged.
C22_FirstMatchOnly ==
    (result.op \in {"update_expense", "delete_expense"} /\ result.reached) =>
        IF Hits(result.before, result.old) = {}
        THEN ~result.ok /\ result.after = result.before
        ELSE \E i \in 1..Len(result.before) :
                /\ IsFirstHit(result.before, result.old, i)
                /\ IF result.op = "update_expense"
                   THEN /\ Len(result.after) = Len(result.before)
                        /\ \A j \in 1..Len(result.before) :
                              result.after[j] =
                                  IF j = i THEN result.args ELSE result.before[j]
                   ELSE /\ Len(result.after) = Len(result.before) - 1
                        /\ \A j \in 1..Len(result.after) :
                              result.after[j] =
                                  IF j < i THEN result.before[j]
                                  ELSE result.before[j + 1]

\* C22 witness: an update on a store holding the record twice, after another
\* record, replaces the first of the two and keeps the second.
C22_FirstOfTwoReplaced ==
    /\ result.op = "update_expense"
    /\ result.reached
    /\ result.ok
    /\ result.before = <<NewRent, PlainFood, PlainFood>>
    /\ result.old = to_dict(from_dict(PlainFood))
    /\ result.after = <<NewRent, NewRent, PlainFood>>

\* C30: the object get_expenses made of a record that a successful add stored
\* can be deleted and updated: with the write succeeding, the call returns
\* success and a delete leaves one record fewer.
C30_AddedRecordCanBeRemoved ==
    ( /\ result.op \in {"update_expense", "delete_expense"}
      /\ result.reached
      /\ result.write_ok
      /\ result.from_add ) =>
        /\ result.ok
        /\ result.op = "delete_expense" =>
               Len(result.after) = Len(result.before) - 1

====
